---- MODULE Spec2Model ----
(***************************************************************************)
(* Knowledge-graph construction (graphService.buildGlobalGraph), the group *)
(* filter of the Graph Explorer (Dashboard.globalGraphData) and the        *)
(* click/highlight handlers of the KnowledgeGraph component.               *)
(*                                                                         *)
(* Strings are sequences of one-character strings, so that trim(),         *)
(* toLowerCase(), charAt(0).toUpperCase() and slice() are computed, not    *)
(* assumed.  A node id is the namespace token ("paper:", "author:", ...)   *)
(* followed by the characters of the normalised name.                      *)
(***************************************************************************)
EXTENDS Integers, Sequences, FiniteSets, TLC

VARIABLES
    documents,       \* argument of buildGlobalGraph / Dashboard state
    nodes,           \* Map<string, GraphNode> in insertion order
    edges,           \* GraphEdge[]
    pc,              \* position inside buildGlobalGraph
    di,              \* index of the document the outer forEach is at
    ii,              \* index of the next addNode/addEdge group of that document
    result,          \* <<>> or <<graph>>: value returned by the last call
    prev,            \* <<>> or <<graph>>: value returned by the call before
    graphFilters,    \* Dashboard state: showConcepts/showAuthors/showInstitutes
    globalGraphData, \* Dashboard useMemo value
    selectedGraphNode, \* Dashboard state: <<>> (null) or the node of the details panel
    data,            \* KnowledgeGraph prop: graph being rendered
    selectedNodeId,  \* KnowledgeGraph state
    circleOpacity,   \* opacity attribute of each node circle (percent)
    labelOpacity,    \* opacity attribute of each node label (percent)
    linkOpacity,     \* stroke-opacity of each line (percent)
    clicked,         \* arguments of the onNodeClick calls the latest handler made
    mounted,         \* a KnowledgeGraph component is mounted
    posX,            \* x of each node of data.nodes
    posY,            \* y of each node
    fx,              \* fx of each node, NoPin when null or absent
    fy,              \* fy of each node
    alpha,           \* alpha of the current simulation, in units of 1 / AlphaScale
    alphaTarget,     \* alphaTarget of the current simulation, in the same units
    simulations,     \* one flag per simulation created, in order: its timer runs
    gestures,        \* for each pointer, the node it drags (0: no gesture)
    transform,       \* zoom transform of the graph group: scale k in tenths, translation x, y
    canvas,          \* a ParticleNetwork component is mounted
    color,           \* ParticleNetwork prop
    effects          \* one record per run of the ParticleNetwork effect, in order

vars == <<documents, nodes, edges, pc, di, ii, result, prev, graphFilters,
          globalGraphData, selectedGraphNode, data, selectedNodeId, circleOpacity, labelOpacity,
          linkOpacity, clicked, mounted, posX, posY, fx, fy, alpha, alphaTarget,
          simulations, gestures, transform, canvas, color, effects>>

buildVars == <<documents, nodes, edges, pc, di, ii, result, prev>>
dashVars  == <<graphFilters, globalGraphData, selectedGraphNode>>
loginVars == <<canvas, color, effects>>
simVars   == <<posX, posY, fx, fy, alpha, alphaTarget, simulations, gestures>>
kgVars    == <<data, selectedNodeId, circleOpacity, labelOpacity, linkOpacity, clicked,
               mounted, transform, simVars>>

----------------------------------------------------------------------------
(* Bounds *)

MaxDocs == 2

\* simulations created during one behaviour
MaxSimulations == 3

\* resolution of alpha: alpha and alphaTarget are counted in units of
\* 1 / AlphaScale, rounded down
AlphaScale == 200

----------------------------------------------------------------------------
(* Strings *)

Whitespace == {" ", "\t"}

UpperChars == <<"A","B","C","D","E","F","G","H","I","J","K","L","M",
                "N","O","P","Q","R","S","T","U","V","W","X","Y","Z">>
LowerChars == <<"a","b","c","d","e","f","g","h","i","j","k","l","m",
                "n","o","p","q","r","s","t","u","v","w","x","y","z">>

LowerChar(c) ==
    IF \E k \in DOMAIN UpperChars : UpperChars[k] = c
    THEN LowerChars[CHOOSE k \in DOMAIN UpperChars : UpperChars[k] = c]
    ELSE c

UpperChar(c) ==
    IF \E k \in DOMAIN LowerChars : LowerChars[k] = c
    THEN UpperChars[CHOOSE k \in DOMAIN LowerChars : LowerChars[k] = c]
    ELSE c

ToLowerCase(s) == [k \in 1..Len(s) |-> LowerChar(s[k])]

RECURSIVE TrimStart(_)
TrimStart(s) ==
    IF s # <<>> /\ Head(s) \in Whitespace THEN TrimStart(Tail(s)) ELSE s

RECURSIVE TrimEnd(_)
TrimEnd(s) ==
    IF s # <<>> /\ s[Len(s)] \in Whitespace
    THEN TrimEnd(SubSeq(s, 1, Len(s) - 1))
    ELSE s

TrimIdentity(s) == s

Trim(s) == TrimEnd(TrimStart(s))

\* concept.charAt(0).toUpperCase() + concept.slice(1)
Capitalize(s) == IF s = <<>> THEN <<>> ELSE <<UpperChar(Head(s))>> \o Tail(s)

SliceAll(s, n) == s

\* array.slice(0, n)
Slice(s, n) == SubSeq(s, 1, IF Len(s) < n THEN Len(s) ELSE n)

\* null is a token that is no string; `if (doc.institute)` is false for null and ""
Null == <<"null">>
Truthy(s) == s # Null /\ s # <<>>

----------------------------------------------------------------------------
(* Program constants of buildGlobalGraph *)

PaperVal     == 10
AuthorVal    == 5
InstituteVal == 6
ConceptVal   == 3
MethodVal    == 3
ConceptLimit == 5
MethodLimit  == 3

PaperId(doc)      == <<"paper:">> \o doc.id
AuthorId(author)  == <<"author:">> \o Trim(author)
InstId(institute) == <<"inst:">> \o Trim(institute)
ConceptId(c)      == <<"concept:">> \o Trim(ToLowerCase(c))
MethodId(m)       == <<"method:">> \o Trim(ToLowerCase(m))

\* metadata objects as key/value lists; {} is the empty list
NoMetadata == <<>>
PaperMetadata(doc) ==
    << <<"title", doc.title>>, <<"date", doc.publicationDate>>,
       <<"summary", doc.summary>>, <<"id", doc.id>> >>

----------------------------------------------------------------------------
(* addNode / addEdge *)

NodeIndex(ns, id) ==
    IF \E k \in DOMAIN ns : ns[k].id = id
    THEN CHOOSE k \in DOMAIN ns : ns[k].id = id
    ELSE 0

AddNodeNoMerge(ns, id, label, group, val, metadata) ==
    Append(ns, [id |-> id, label |-> label, group |-> group, val |-> val,
                metadata |-> metadata])

AddNodeNoIncrement(ns, id, label, group, val, metadata) ==
    IF NodeIndex(ns, id) = 0
    THEN Append(ns, [id |-> id, label |-> label, group |-> group, val |-> val,
                     metadata |-> metadata])
    ELSE ns

\* a merge that lets the last label and metadata win
AddNodeLastWins(ns, id, label, group, val, metadata) ==
    IF NodeIndex(ns, id) = 0
    THEN Append(ns, [id |-> id, label |-> label, group |-> group, val |-> val,
                     metadata |-> metadata])
    ELSE [ns EXCEPT ![NodeIndex(ns, id)] =
            [id |-> id, label |-> label, group |-> group, val |-> @.val + 1,
             metadata |-> metadata]]

AddNode(ns, id, label, group, val, metadata) ==
    IF NodeIndex(ns, id) = 0
    THEN Append(ns, [id |-> id, label |-> label, group |-> group, val |-> val,
                     metadata |-> metadata])
    ELSE [ns EXCEPT ![NodeIndex(ns, id)].val = @ + 1]

AddEdgeDirected(es, source, target, relation) ==
    IF source = target THEN es
    ELSE IF \E k \in DOMAIN es :
              es[k].source = source /\ es[k].target = target
              /\ es[k].relation = relation
         THEN es
         ELSE Append(es, [source |-> source, target |-> target, relation |-> relation])

AddEdgeNoDedup(es, source, target, relation) ==
    IF source = target THEN es
    ELSE Append(es, [source |-> source, target |-> target, relation |-> relation])

AddEdgeSelfLoops(es, source, target, relation) ==
    IF \E k \in DOMAIN es :
          \/ es[k].source = source /\ es[k].target = target /\ es[k].relation = relation
          \/ es[k].source = target /\ es[k].target = source /\ es[k].relation = relation
    THEN es
    ELSE Append(es, [source |-> source, target |-> target, relation |-> relation])

AddEdge(es, source, target, relation) ==
    IF source = target THEN es
    ELSE IF \E k \in DOMAIN es :
              \/ es[k].source = source /\ es[k].target = target
                 /\ es[k].relation = relation
              \/ es[k].source = target /\ es[k].target = source
                 /\ es[k].relation = relation
         THEN es
         ELSE Append(es, [source |-> source, target |-> target, relation |-> relation])

----------------------------------------------------------------------------
(* One iteration of each loop of buildGlobalGraph, on a graph g *)

Graph(ns, es) == [nodes |-> ns, edges |-> es]

PaperPart(g, doc) ==
    Graph(AddNode(g.nodes, PaperId(doc), doc.title, "PAPER", PaperVal,
                  PaperMetadata(doc)),
          g.edges)

AuthorPart(g, doc, author) ==
    Graph(AddNode(g.nodes, AuthorId(author), Trim(author), "AUTHOR", AuthorVal,
                  NoMetadata),
          AddEdge(g.edges, PaperId(doc), AuthorId(author), "written_by"))

InstitutePart(g, doc) ==
    Graph(AddNode(g.nodes, InstId(doc.institute), Trim(doc.institute), "INSTITUTE",
                  InstituteVal, NoMetadata),
          AddEdge(g.edges, PaperId(doc), InstId(doc.institute), "published_at"))

\* an affiliation edge drawn from the paper instead of the author
AffiliatedPartFromPaper(g, doc, author) ==
    Graph(g.nodes,
          AddEdge(g.edges, PaperId(doc), InstId(doc.institute), "affiliated_with"))

AffiliatedPart(g, doc, author) ==
    Graph(g.nodes,
          AddEdge(g.edges, AuthorId(author), InstId(doc.institute), "affiliated_with"))

ConceptPart(g, doc, concept) ==
    Graph(AddNode(g.nodes, ConceptId(concept), Capitalize(concept), "CONCEPT",
                  ConceptVal, NoMetadata),
          AddEdge(g.edges, PaperId(doc), ConceptId(concept), "discusses"))

MethodPart(g, doc, method) ==
    Graph(AddNode(g.nodes, MethodId(method), Capitalize(method), "METHOD",
                  MethodVal, NoMetadata),
          AddEdge(g.edges, PaperId(doc), MethodId(method), "uses_method"))

\* the document has the property f, and it is neither undefined nor null
Has(doc, f) == f \in DOMAIN doc

\* the value e of the singleton set {e}; binding a name to it computes e once
TheOne(S) == CHOOSE x \in S : TRUE

\* the addNode/addEdge call groups a document gives rise to, in program
\* order, each with the loop it belongs to and the array element it is for
\* A property that is undefined or null is a field the record does not have:
\* .forEach and .slice of either throw the same TypeError, which ends the
\* call; "throw" is the group at which that happens.
DocParts(doc) ==
    << <<"paper", <<>> >> >>
      \o (IF ~Has(doc, "authors") THEN << <<"throw", <<>> >> >> ELSE
      [k \in DOMAIN doc.authors |-> <<"authors", doc.authors[k]>>]
      \o (IF Truthy(doc.institute)
          THEN << <<"institute", <<>> >> >>
                 \o [k \in DOMAIN doc.authors |-> <<"affiliated", doc.authors[k]>>]
          ELSE <<>>)
      \o (IF ~Has(doc, "keyConcepts") THEN << <<"throw", <<>> >> >> ELSE
      [k \in DOMAIN Slice(doc.keyConcepts, ConceptLimit) |->
            <<"concepts", Slice(doc.keyConcepts, ConceptLimit)[k]>>]
      \o (IF ~Has(doc, "methods") THEN << <<"throw", <<>> >> >> ELSE
      [k \in DOMAIN Slice(doc.methods, MethodLimit) |->
            <<"methods", Slice(doc.methods, MethodLimit)[k]>>])))

ApplyPart(g, doc, part) ==
    CASE part[1] = "paper"      -> PaperPart(g, doc)
      [] part[1] = "authors"    -> AuthorPart(g, doc, part[2])
      [] part[1] = "institute"  -> InstitutePart(g, doc)
      [] part[1] = "affiliated" -> AffiliatedPart(g, doc, part[2])
      [] part[1] = "concepts"   -> ConceptPart(g, doc, part[2])
      [] part[1] = "methods"    -> MethodPart(g, doc, part[2])

RECURSIVE FoldParts(_, _, _, _)
FoldParts(g, doc, parts, k) ==
    IF k > Len(parts) THEN g
    ELSE TheOne({FoldParts(h, doc, parts, k + 1) : h \in {ApplyPart(g, doc, parts[k])}})

\* body of documents.forEach
ProcessDoc(g, doc) ==
    TheOne({FoldParts(g, doc, parts, 1) : parts \in {DocParts(doc)}})

RECURSIVE FoldDocs(_, _, _)
FoldDocs(g, docs, k) ==
    IF k > Len(docs) THEN g
    ELSE TheOne({FoldDocs(h, docs, k + 1) : h \in {ProcessDoc(g, docs[k])}})

\* the whole call, as a function of its argument
BuildGlobalGraph(docs) == FoldDocs(Graph(<<>>, <<>>), docs, 1)

----------------------------------------------------------------------------
(* Documents the model is run on *)

Doc(id, title, authors, institute, keyConcepts, methods) ==
    [id |-> id, title |-> title, publicationDate |-> <<"2", "0", "2", "4">>,
     summary |-> <<"s">>, authors |-> authors, institute |-> institute,
     keyConcepts |-> keyConcepts, methods |-> methods]

KChen    == <<"K", ".", " ", "C", "h", "e", "n">>
KChenPad == <<" ", "K", ".", " ", "C", "h", "e", "n", " ">>
Lee      == <<"L", "e", "e">>
MIT      == <<"M", "I", "T">>
MITPad   == <<"M", "I", "T", " ">>
Blank    == <<" ">>
GNN      == <<"G", "N", "N">>
GnnPad   == <<"g", "n", "n", " ">>
Svm      == <<"S", "V", "M">>
SvmLower == <<"s", "v", "m">>

\* the end-to-end scenario of the specification
Doc1 == Doc(<<"1">>, <<"T", "1">>, <<KChen>>, MIT, <<GNN>>, <<>>)
Doc2 == Doc(<<"2">>, <<"T", "2">>, <<KChen>>, MIT, <<GNN>>, <<>>)
\* the same names with surrounding whitespace and other capitalisation
Doc3 == Doc(<<"3">>, <<"T", "3">>, <<KChenPad>>, MITPad, <<GnnPad>>, <<>>)
\* more than 5 distinct concepts, more than 3 distinct methods, null institute
Doc4 ==
    Doc(<<"4">>, <<"T", "4">>, <<KChen, Lee>>, Null,
        << <<"a">>, <<"b">>, <<"c">>, <<"d">>, <<"e">>, <<"f">> >>,
        << Svm, <<"p">>, <<"q">>, <<"r">> >>)
\* long lists whose first entries normalise to the same id, empty institute
Doc5 ==
    Doc(<<"5">>, <<"T", "5">>, <<Lee>>, <<>>,
        << GNN, GnnPad, <<"a">>, <<"b">>, <<"c">>, <<"d">> >>,
        << Svm, SvmLower, <<"p">>, <<"q">> >>)
\* long lists whose entry past the cut-off repeats an earlier one, blank institute
Doc6 ==
    Doc(<<"6">>, <<"T", "6">>, <<>>, Blank,
        << <<"a">>, <<"b">>, <<"c">>, <<"d">>, <<"e">>, <<"a">> >>,
        << <<"p">>, <<"q">>, <<"r">>, <<"p">> >>)
\* the id of the first document again, an author listed twice
Doc7 == Doc(<<"1">>, <<"T", "1", "b">>, <<Lee, Lee>>, MIT, <<>>, <<>>)

DocCatalogue == {Doc1, Doc2, Doc3, Doc4, Doc5, Doc6, Doc7}

\* the document without the property f
Without(doc, f) == [g \in DOMAIN doc \ {f} |-> doc[g]]

\* documents with a missing array, with all three missing, with a null
\* institute, and well-formed ones
MalformedCatalogue ==
    {Doc1, Doc4, Without(Doc1, "authors"), Without(Doc2, "keyConcepts"),
     Without(Doc4, "methods"),
     Without(Without(Without(Doc3, "authors"), "keyConcepts"), "methods")}

RECURSIVE SeqsUpTo(_, _)
SeqsUpTo(S, n) ==
    IF n = 0 THEN {<<>>}
    ELSE LET shorter == SeqsUpTo(S, n - 1)
         IN  shorter \cup {Append(s, x) : s \in shorter, x \in S}

DocLists == SeqsUpTo(DocCatalogue, MaxDocs)

MalformedLists == SeqsUpTo(MalformedCatalogue, MaxDocs)

Perms(n) == {p \in [1..n -> 1..n] : \A a, b \in 1..n : p[a] = p[b] => a = b}
Permute(s, p) == [k \in 1..Len(s) |-> s[p[k]]]

----------------------------------------------------------------------------
(* buildGlobalGraph, one addNode/addEdge group per step *)

CurDoc == documents[di]

\* the call group the next step runs
CurPart == DocParts(CurDoc)[ii]

AtPart(phase) ==
    /\ pc = "running"
    /\ di <= Len(documents)
    /\ CurPart[1] = phase

\* one call group: the graph becomes ApplyPart's, and the position moves to
\* the next group of this document or to the next document
Step ==
    /\ \E g \in {ApplyPart(Graph(nodes, edges), CurDoc, CurPart)} :
          nodes' = g.nodes /\ edges' = g.edges
    /\ IF ii < Len(DocParts(CurDoc))
       THEN ii' = ii + 1 /\ di' = di
       ELSE ii' = 1 /\ di' = di + 1
    /\ UNCHANGED <<loginVars, pc, documents, result, prev, dashVars, kgVars>>

SharedNodeMap == nodes

NewNodeMap == <<>>

NewEdgeList == <<>>

Call ==
    /\ pc = "idle"
    /\ nodes' = NewNodeMap
    /\ edges' = NewEdgeList
    /\ pc' = "running"
    /\ di' = 1
    /\ ii' = 1
    /\ UNCHANGED <<loginVars, documents, result, prev, dashVars, kgVars>>

PaperStep == AtPart("paper") /\ Step

AuthorStep == AtPart("authors") /\ Step

InstituteStep == AtPart("institute") /\ Step

AffiliatedStep == AtPart("affiliated") /\ Step

ConceptStep == AtPart("concepts") /\ Step

MethodStep == AtPart("methods") /\ Step

\* doc.authors.forEach, doc.keyConcepts.slice or doc.methods.slice of a
\* missing array: the TypeError leaves documents.forEach and the function
Throw ==
    /\ AtPart("throw")
    /\ pc' = "raised"
    /\ UNCHANGED <<loginVars, documents, nodes, edges, di, ii, result, prev, dashVars, kgVars>>

Return ==
    /\ pc = "running"
    /\ di > Len(documents)
    /\ result' = <<Graph(nodes, edges)>>
    /\ pc' = "returned"
    /\ UNCHANGED <<loginVars, documents, nodes, edges, di, ii, prev, dashVars, kgVars>>

\* a second call, with the same documents in any order
CallAgain(p) ==
    /\ pc = "returned"
    /\ prev = <<>>
    /\ prev' = result
    /\ result' = <<>>
    /\ documents' = Permute(documents, p)
    /\ nodes' = NewNodeMap
    /\ edges' = NewEdgeList
    /\ pc' = "running"
    /\ di' = 1
    /\ ii' = 1
    /\ UNCHANGED <<loginVars, dashVars, kgVars>>

EmptyGraph == Graph(<<>>, <<>>)

\* fx and fy of a node that is not pinned (null or absent)
NoPin == -1

\* the pointers that can hold a drag gesture: the mouse and one touch
Pointers == {"mouse", "touch"}

NoGestures == [p \in Pointers |-> 0]

\* the zoom transform of a graph group that was never zoomed (scale 1)
IdentityScale == 10

\* d3.zoomIdentity
IdentityTransform == [k |-> IdentityScale, x |-> 0, y |-> 0]

AllShown == [showConcepts |-> TRUE, showAuthors |-> TRUE, showInstitutes |-> TRUE]

\* the Graph Explorer is not on screen
DashIdle ==
    /\ graphFilters = AllShown
    /\ globalGraphData = EmptyGraph
    /\ selectedGraphNode = <<>>

\* no KnowledgeGraph component is mounted
KgIdle ==
    /\ data = EmptyGraph
    /\ selectedNodeId = Null
    /\ circleOpacity = <<>>
    /\ labelOpacity = <<>>
    /\ linkOpacity = <<>>
    /\ clicked = <<>>
    /\ mounted = FALSE
    /\ posX = <<>>
    /\ posY = <<>>
    /\ fx = <<>>
    /\ fy = <<>>
    /\ alpha = 0
    /\ alphaTarget = 0
    /\ simulations = <<>>
    /\ gestures = NoGestures
    /\ transform = IdentityTransform

UiIdle == DashIdle /\ KgIdle

\* themeColor of LoginView, one per role, as the characters of the string
Indigo  == <<"#", "4", "f", "4", "6", "e", "5">>
Emerald == <<"#", "0", "5", "9", "6", "6", "9">>
Violet  == <<"#", "7", "c", "3", "a", "e", "d">>
Red     == <<"#", "d", "c", "2", "6", "2", "6">>
ThemeColors == {Indigo, Emerald, Violet, Red}

\* no ParticleNetwork has been rendered; the colour is that of the
\* role LoginView starts with
LoginIdle ==
    /\ canvas = FALSE
    /\ color = Indigo
    /\ effects = <<>>

\* no call of buildGlobalGraph is being traced
BuildIdle ==
    /\ nodes = <<>>
    /\ edges = <<>>
    /\ pc = "idle"
    /\ di = 1
    /\ ii = 1
    /\ result = <<>>
    /\ prev = <<>>

Init ==
    /\ documents \in DocLists
    /\ BuildIdle
    /\ LoginIdle
    /\ UiIdle

Next ==
    \/ Call
    \/ PaperStep
    \/ AuthorStep
    \/ InstituteStep
    \/ AffiliatedStep
    \/ ConceptStep
    \/ MethodStep
    \/ Return
    \/ \E p \in Perms(Len(documents)) : CallAgain(p)

Spec == Init /\ [][Next]_vars

\* buildGlobalGraph called with documents that may lack arrays
InitMalformed ==
    /\ documents \in MalformedLists
    /\ BuildIdle
    /\ LoginIdle
    /\ UiIdle

NextMalformed ==
    \/ Call
    \/ PaperStep
    \/ AuthorStep
    \/ InstituteStep
    \/ AffiliatedStep
    \/ ConceptStep
    \/ MethodStep
    \/ Throw
    \/ Return

SpecMalformed == InitMalformed /\ [][NextMalformed]_vars

----------------------------------------------------------------------------
(* Dashboard: documents, graphFilters and the memoised globalGraphData *)

\* the filter callback of rawData.nodes.filter
KeepNode(n, f) ==
    /\ ~(n.group = "CONCEPT" /\ ~f.showConcepts)
    /\ ~(n.group = "AUTHOR" /\ ~f.showAuthors)
    /\ ~(n.group = "INSTITUTE" /\ ~f.showInstitutes)

FilteredNodes(rawData, f) == SelectSeq(rawData.nodes, LAMBDA n : KeepNode(n, f))

\* typeof e.source === 'string' ? e.source : e.source.id; the edges of a fresh
\* rawData carry the id strings addEdge stored
EndpointId(x) == x

AllEdges(rawData, filteredNodes) == rawData.edges

FilteredEdges(rawData, filteredNodes) ==
    LET nodeIds == {filteredNodes[k].id : k \in DOMAIN filteredNodes}
    IN  SelectSeq(rawData.edges,
                  LAMBDA e : EndpointId(e.source) \in nodeIds
                             /\ EndpointId(e.target) \in nodeIds)

\* the useMemo callback
GlobalGraphData(docs, f) ==
    TheOne({TheOne({Graph(filteredNodes, FilteredEdges(rawData, filteredNodes)) :
                      filteredNodes \in {FilteredNodes(rawData, f)}}) :
              rawData \in {BuildGlobalGraph(docs)}})

\* a state change of the Dashboard followed by its render
Render(docs, f) ==
    /\ documents' = docs
    /\ graphFilters' = f
    /\ \E g \in {GlobalGraphData(docs, f)} : globalGraphData' = g
    /\ UNCHANGED <<loginVars, nodes, edges, pc, di, ii, result, prev, selectedGraphNode, kgVars>>

\* handleAnalysisComplete stores a new document (unshift); the load effect
\* then sets the stored list, newest first
AddDocumentAndReload(doc) ==
    /\ Len(documents) < MaxDocs
    /\ Render(<<doc>> \o documents, graphFilters)

SetShowConcepts(checked) ==
    /\ checked # graphFilters.showConcepts
    /\ Render(documents, [graphFilters EXCEPT !.showConcepts = checked])

SetShowAuthors(checked) ==
    /\ checked # graphFilters.showAuthors
    /\ Render(documents, [graphFilters EXCEPT !.showAuthors = checked])

SetShowInstitutes(checked) ==
    /\ checked # graphFilters.showInstitutes
    /\ Render(documents, [graphFilters EXCEPT !.showInstitutes = checked])

\* after the first run of the load effect
InitDash ==
    /\ documents \in DocLists
    /\ graphFilters = AllShown
    /\ globalGraphData = GlobalGraphData(documents, graphFilters)
    /\ selectedGraphNode = <<>>
    /\ BuildIdle
    /\ LoginIdle
    /\ KgIdle

NextDash ==
    \/ \E doc \in DocCatalogue : AddDocumentAndReload(doc)
    \/ \E checked \in BOOLEAN : SetShowConcepts(checked)
    \/ \E checked \in BOOLEAN : SetShowAuthors(checked)
    \/ \E checked \in BOOLEAN : SetShowInstitutes(checked)

SpecDash == InitDash /\ [][NextDash]_vars

----------------------------------------------------------------------------
(* KnowledgeGraph component: click and highlight *)

\* opacities in percent
OpacityFull   == 100
OpacityDim    == 10
LinkDefault   == 60
LinkProminent == 80
LinkDim       == 5

Min(a, b) == IF a < b THEN a ELSE b

\* a radius that keeps growing with the weight
GetRadiusUncapped(group, val) ==
    CASE group = "PAPER"     -> 12 + val
      [] group = "AUTHOR"    -> 8 + val
      [] group = "INSTITUTE" -> 10
      [] OTHER               -> 5 + val

\* the r attribute of the circle of a node
GetRadius(group, val) ==
    CASE group = "PAPER"     -> 12 + Min(val, 5)
      [] group = "AUTHOR"    -> 8 + Min(val, 3)
      [] group = "INSTITUTE" -> 10
      [] OTHER               -> 5 + Min(val, 3)

\* forceLink resolves the endpoint ids of data.edges to node objects, here
\* the position of the node in data.nodes (the last one with that id;
\* 0 when there is none)
NodeObject(g, id) ==
    LET hits == {k \in DOMAIN g.nodes : g.nodes[k].id = id}
    IN  IF hits = {} THEN 0 ELSE CHOOSE k \in hits : \A m \in hits : m <= k

Links(g) ==
    [k \in DOMAIN g.edges |->
        [source |-> NodeObject(g, g.edges[k].source),
         target |-> NodeObject(g, g.edges[k].target),
         relation |-> g.edges[k].relation]]

\* The element k of g.edges once forceLink has initialised on g.edges and
\* g.nodes: going through the links in order it replaces a source or
\* target that is not an object by the node object with that id, in the
\* element itself, and throws at the first id it does not find.
MutatedEdge(g, k) ==
    LET Found(id) == NodeObject(g, id) # 0
        reached == \A m \in 1..(k - 1) :
                      Found(g.edges[m].source) /\ Found(g.edges[m].target)
        source == reached /\ Found(g.edges[k].source)
        target == source /\ Found(g.edges[k].target)
    IN  [source |-> [kind |-> IF source THEN "object" ELSE "string",
                     id |-> g.edges[k].source],
         target |-> [kind |-> IF target THEN "object" ELSE "string",
                     id |-> g.edges[k].target]]

\* (e.source as GraphNode).id
ObjectId(g, obj) == g.nodes[obj].id

LinkedNodeIdsOutgoing(g, targetNodeId) ==
    {targetNodeId}
      \cup {ObjectId(g, Links(g)[k].target) :
              k \in {m \in DOMAIN g.edges : ObjectId(g, Links(g)[m].source) = targetNodeId}}

\* the set handleHighlight collects for a non-null target
LinkedNodeIds(g, targetNodeId) ==
    {targetNodeId}
      \cup {ObjectId(g, Links(g)[k].target) :
              k \in {m \in DOMAIN g.edges : ObjectId(g, Links(g)[m].source) = targetNodeId}}
      \cup {ObjectId(g, Links(g)[k].source) :
              k \in {m \in DOMAIN g.edges : ObjectId(g, Links(g)[m].target) = targetNodeId}}

HandleHighlightIncident(targetNodeId) ==
    IF ~Truthy(targetNodeId)
    THEN /\ circleOpacity' = [k \in DOMAIN data.nodes |-> OpacityFull]
         /\ linkOpacity' = [k \in DOMAIN data.edges |-> LinkDefault]
         /\ labelOpacity' = [k \in DOMAIN data.nodes |-> OpacityFull]
    ELSE \E linkedNodeIds \in {LinkedNodeIds(data, targetNodeId)} :
         /\ circleOpacity' = [k \in DOMAIN data.nodes |->
               IF data.nodes[k].id \in linkedNodeIds THEN OpacityFull ELSE OpacityDim]
         /\ labelOpacity' = [k \in DOMAIN data.nodes |->
               IF data.nodes[k].id \in linkedNodeIds THEN OpacityFull ELSE OpacityDim]
         /\ linkOpacity' = [k \in DOMAIN data.edges |->
               IF \/ ObjectId(data, Links(data)[k].source) = targetNodeId
                  \/ ObjectId(data, Links(data)[k].target) = targetNodeId
               THEN LinkProminent ELSE LinkDim]

\* a background click that does not reset the highlight
HandleHighlightNoReset(targetNodeId) ==
    IF ~Truthy(targetNodeId)
    THEN UNCHANGED <<circleOpacity, linkOpacity, labelOpacity>>
    ELSE HandleHighlightIncident(targetNodeId)

HandleHighlight(targetNodeId) ==
    IF ~Truthy(targetNodeId)
    THEN /\ circleOpacity' = [k \in DOMAIN data.nodes |-> OpacityFull]
         /\ linkOpacity' = [k \in DOMAIN data.edges |-> LinkDefault]
         /\ labelOpacity' = [k \in DOMAIN data.nodes |-> OpacityFull]
    ELSE \E linkedNodeIds \in {LinkedNodeIds(data, targetNodeId)} :
         /\ circleOpacity' = [k \in DOMAIN data.nodes |->
               IF data.nodes[k].id \in linkedNodeIds THEN OpacityFull ELSE OpacityDim]
         /\ labelOpacity' = [k \in DOMAIN data.nodes |->
               IF data.nodes[k].id \in linkedNodeIds THEN OpacityFull ELSE OpacityDim]
         /\ linkOpacity' = [k \in DOMAIN data.edges |->
               IF /\ ObjectId(data, Links(data)[k].source) \in linkedNodeIds
                  /\ ObjectId(data, Links(data)[k].target) \in linkedNodeIds
               THEN LinkProminent ELSE LinkDim]

\* a click listener without stopPropagation
Bubbles == FALSE

\* event.stopPropagation() in the node's click listener: the click does not
\* bubble to the listener of the svg
StopPropagation == TRUE

\* node.on("click"): the node at position k of data.nodes is clicked; a click
\* that bubbles also runs the listener of the svg afterwards
NodeClick(k) ==
    /\ mounted
    /\ k \in DOMAIN data.nodes
    /\ IF StopPropagation
       THEN /\ selectedNodeId' = data.nodes[k].id
            /\ HandleHighlight(data.nodes[k].id)
       ELSE /\ selectedNodeId' = Null
            /\ HandleHighlight(Null)
    /\ clicked' = <<data.nodes[k]>>
    /\ UNCHANGED <<loginVars, data, mounted, transform, simVars, buildVars, dashVars>>

\* svg.on("click")
BackgroundClick ==
    /\ mounted
    /\ selectedNodeId' = Null
    /\ HandleHighlight(Null)
    /\ clicked' = <<>>
    /\ UNCHANGED <<loginVars, data, mounted, transform, simVars, buildVars, dashVars>>

\* the points of the canvas that node positions and pointers are drawn from
PointSeq == << <<0, 0>>, <<1, 2>> >>

Points == {PointSeq[i] : i \in DOMAIN PointSeq}

\* forceSimulation(nodes) places the nodes that have no position yet, each
\* index at its own point of a fixed spiral
InitialPoint(k) == PointSeq[((k - 1) % Len(PointSeq)) + 1]

\* d3-force defaults: alpha 1, alphaMin 0.001 (1 thousandth),
\* alphaDecay 1 - 0.001^(1/300) = 0.0228 (228 / 10000), alphaTarget 0
AlphaStart    == AlphaScale
AlphaMinMilli == 1
AlphaDecayNum == 228
AlphaDecayDen == 10000
AlphaTargetIdle == 0
\* alphaTarget(0.3)
AlphaTargetDragMilli == 300
AlphaTargetDrag == (AlphaTargetDragMilli * AlphaScale) \div 1000

\* alpha < alphaMin
BelowAlphaMin(a) == a * 1000 < AlphaMinMilli * AlphaScale

\* scaleExtent([0.1, 4]), in tenths
ScaleMin == 1
ScaleMax == 40

Running == simulations # <<>> /\ simulations[Len(simulations)]

\* the leaked variant of the cleanup: the old simulation keeps running
NotStopped(sims) == sims

\* simulation.stop(): the timer of the current simulation stops
Stopped(sims) ==
    IF sims = <<>> THEN sims ELSE [sims EXCEPT ![Len(sims)] = FALSE]

\* simulation.restart(): the timer of the current simulation runs
Restarted(sims) == [sims EXCEPT ![Len(sims)] = TRUE]

\* the effect body: the svg is emptied and drawn again for the graph g, with
\* a new simulation, a new drag behaviour and a new graph group
Redraw(g) ==
    /\ data' = g
    /\ circleOpacity' = [k \in DOMAIN g.nodes |-> OpacityFull]
    /\ labelOpacity' = [k \in DOMAIN g.nodes |-> OpacityFull]
    /\ linkOpacity' = [k \in DOMAIN g.edges |-> LinkDefault]
    /\ posX' = [k \in DOMAIN g.nodes |-> InitialPoint(k)[1]]
    /\ posY' = [k \in DOMAIN g.nodes |-> InitialPoint(k)[2]]
    /\ fx' = [k \in DOMAIN g.nodes |-> NoPin]
    /\ fy' = [k \in DOMAIN g.nodes |-> NoPin]
    /\ alpha' = AlphaStart
    /\ alphaTarget' = AlphaTargetIdle
    /\ gestures' = NoGestures
    /\ transform' = IdentityTransform

\* the effect body run by a handler that calls no onNodeClick
Draw(g) == Redraw(g) /\ clicked' = <<>>

\* the data prop changes: the cleanup of the effect stops the simulation and
\* the effect runs again
SetData(g) ==
    /\ mounted
    /\ g # data
    /\ Len(simulations) < MaxSimulations
    /\ Draw(g)
    /\ simulations' = Append(Stopped(simulations), TRUE)
    /\ UNCHANGED <<loginVars, selectedNodeId, mounted, buildVars, dashVars>>

\* the component unmounts: the cleanup of the effect runs
Unmount ==
    /\ mounted
    /\ mounted' = FALSE
    /\ simulations' = Stopped(simulations)
    /\ clicked' = <<>>
    /\ UNCHANGED <<loginVars, data, selectedNodeId, circleOpacity, labelOpacity, linkOpacity,
                   transform, posX, posY, fx, fy, alpha, alphaTarget, gestures,
                   buildVars, dashVars>>

\* event.active of a start or end event of pointer p: the gestures of the
\* other pointers that are in progress
Active(p) == Cardinality({q \in Pointers \ {p} : gestures[q] # 0})

\* dragstarted: pointer p goes down on node k
DragStarted(p, k) ==
    /\ mounted
    /\ gestures[p] = 0
    /\ k \in DOMAIN data.nodes
    /\ gestures' = [gestures EXCEPT ![p] = k]
    /\ IF Active(p) = 0
       THEN /\ alphaTarget' = AlphaTargetDrag
            /\ simulations' = Restarted(simulations)
       ELSE UNCHANGED <<alphaTarget, simulations>>
    /\ fx' = [fx EXCEPT ![k] = posX[k]]
    /\ fy' = [fy EXCEPT ![k] = posY[k]]
    /\ clicked' = <<>>
    /\ UNCHANGED <<loginVars, data, selectedNodeId, circleOpacity, labelOpacity, linkOpacity,
                   mounted, transform, posX, posY, alpha, buildVars, dashVars>>

\* dragged: pointer p moves to the point pt
Dragged(p, pt) ==
    /\ mounted
    /\ gestures[p] # 0
    /\ fx' = [fx EXCEPT ![gestures[p]] = pt[1]]
    /\ fy' = [fy EXCEPT ![gestures[p]] = pt[2]]
    /\ clicked' = <<>>
    /\ UNCHANGED <<loginVars, data, selectedNodeId, circleOpacity, labelOpacity, linkOpacity,
                   mounted, transform, posX, posY, alpha, alphaTarget, simulations,
                   gestures, buildVars, dashVars>>

\* a release that resets the alpha target whatever event.active is
DragEndedAlwaysResets(p) ==
    /\ mounted
    /\ gestures[p] # 0
    /\ gestures' = [gestures EXCEPT ![p] = 0]
    /\ alphaTarget' = AlphaTargetIdle
    /\ fx' = [fx EXCEPT ![gestures[p]] = NoPin]
    /\ fy' = [fy EXCEPT ![gestures[p]] = NoPin]
    /\ clicked' = <<>>
    /\ UNCHANGED <<loginVars, data, selectedNodeId, circleOpacity, labelOpacity, linkOpacity,
                   mounted, transform, posX, posY, alpha, simulations, buildVars, dashVars>>

\* dragended: pointer p goes up
DragEnded(p) ==
    /\ mounted
    /\ gestures[p] # 0
    /\ gestures' = [gestures EXCEPT ![p] = 0]
    /\ IF Active(p) = 0
       THEN alphaTarget' = AlphaTargetIdle
       ELSE UNCHANGED alphaTarget
    /\ fx' = [fx EXCEPT ![gestures[p]] = NoPin]
    /\ fy' = [fy EXCEPT ![gestures[p]] = NoPin]
    /\ clicked' = <<>>
    /\ UNCHANGED <<loginVars, data, selectedNodeId, circleOpacity, labelOpacity, linkOpacity,
                   mounted, transform, posX, posY, alpha, simulations, buildVars, dashVars>>

\* a simulation whose alpha never changes
NoDecay(a, target) == a

\* alpha += (alphaTarget - alpha) * alphaDecay
Cooled(a, target) == a + (((target - a) * AlphaDecayNum) \div AlphaDecayDen)

\* one step of the timer of the current simulation: alpha moves towards its
\* target, a pinned node goes to its pin and the forces move the other
\* nodes, the tick listener redraws, and the timer stops once alpha is below
\* alphaMin
Tick ==
    /\ mounted
    /\ Running
    /\ alpha' = Cooled(alpha, alphaTarget)
    /\ \E to \in [DOMAIN data.nodes -> Points] :
          /\ posX' = [k \in DOMAIN data.nodes |-> IF fx[k] # NoPin THEN fx[k] ELSE to[k][1]]
          /\ posY' = [k \in DOMAIN data.nodes |-> IF fy[k] # NoPin THEN fy[k] ELSE to[k][2]]
    /\ simulations' = IF BelowAlphaMin(alpha') THEN Stopped(simulations) ELSE simulations
    /\ clicked' = <<>>
    /\ UNCHANGED <<loginVars, data, selectedNodeId, circleOpacity, labelOpacity, linkOpacity,
                   mounted, transform, fx, fy, alphaTarget, gestures, buildVars, dashVars>>

\* a zoom behaviour without scale extent
ClampNone(k) == k

\* the scale d3-zoom reports for a requested scale k
ClampScale(k) == IF k < ScaleMin THEN ScaleMin ELSE IF k > ScaleMax THEN ScaleMax ELSE k

\* zoom.on("zoom"): the graph group takes the transform of the event, the
\* requested scale k within the scale extent and the translation t; a pan is
\* a zoom event with the scale as it is
Zoom(k, t) ==
    /\ mounted
    /\ transform' = [k |-> ClampScale(k), x |-> t[1], y |-> t[2]]
    /\ clicked' = <<>>
    /\ UNCHANGED <<loginVars, data, selectedNodeId, circleOpacity, labelOpacity, linkOpacity,
                   mounted, simVars, buildVars, dashVars>>

\* a document's local graph: edges A-B, A-C and D-E, and no edge B-C
ExampleGraph ==
    Graph([k \in 1..5 |->
             [id |-> <<<<"A">>, <<"B">>, <<"C">>, <<"D">>, <<"E">>>>[k],
              label |-> <<<<"A">>, <<"B">>, <<"C">>, <<"D">>, <<"E">>>>[k],
              group |-> "CONCEPT", val |-> 1, metadata |-> NoMetadata]],
          << [source |-> <<"A">>, target |-> <<"B">>, relation |-> "r"],
             [source |-> <<"C">>, target |-> <<"A">>, relation |-> "r"],
             [source |-> <<"D">>, target |-> <<"E">>, relation |-> "r"] >>)

FilterStates ==
    [showConcepts : BOOLEAN, showAuthors : BOOLEAN, showInstitutes : BOOLEAN]

\* the graphs the component is mounted with
GraphInputs ==
    {GlobalGraphData(docs, f) :
        docs \in {<<>>, <<Doc1>>, <<Doc1, Doc2>>, <<Doc3, Doc1>>, <<Doc4, Doc7>>,
                  <<Doc6, Doc5>>},
        f \in FilterStates}
      \cup {ExampleGraph}

\* the component has mounted and its effect has run once, for data
Mounted ==
    /\ mounted = TRUE
    /\ selectedNodeId = Null
    /\ circleOpacity = [k \in DOMAIN data.nodes |-> OpacityFull]
    /\ labelOpacity = [k \in DOMAIN data.nodes |-> OpacityFull]
    /\ linkOpacity = [k \in DOMAIN data.edges |-> LinkDefault]
    /\ clicked = <<>>
    /\ posX = [k \in DOMAIN data.nodes |-> InitialPoint(k)[1]]
    /\ posY = [k \in DOMAIN data.nodes |-> InitialPoint(k)[2]]
    /\ fx = [k \in DOMAIN data.nodes |-> NoPin]
    /\ fy = [k \in DOMAIN data.nodes |-> NoPin]
    /\ alpha = AlphaStart
    /\ alphaTarget = AlphaTargetIdle
    /\ simulations = <<TRUE>>
    /\ gestures = NoGestures
    /\ transform = IdentityTransform

\* after the component has mounted and its effect has run
InitKG ==
    /\ documents = <<>>
    /\ BuildIdle
    /\ LoginIdle
    /\ DashIdle
    /\ data \in GraphInputs
    /\ Mounted

NextKG ==
    \/ \E k \in DOMAIN data.nodes : NodeClick(k)
    \/ BackgroundClick
    \/ \E g \in GraphInputs : SetData(g)

SpecKG == InitKG /\ [][NextKG]_vars

\* two nodes joined by an edge, and one node alone
PairGraph ==
    Graph([k \in 1..2 |->
             [id |-> << <<"A">>, <<"B">> >>[k], label |-> << <<"A">>, <<"B">> >>[k],
              group |-> "CONCEPT", val |-> 1, metadata |-> NoMetadata]],
          << [source |-> <<"A">>, target |-> <<"B">>, relation |-> "r"] >>)

LoneGraph ==
    Graph(<< [id |-> <<"C">>, label |-> <<"C">>, group |-> "PAPER", val |-> 10,
              metadata |-> NoMetadata] >>, <<>>)

\* two nodes and no edge
SplitGraph == Graph(PairGraph.nodes, <<>>)

SimGraphs == {PairGraph, LoneGraph}

\* requested zoom scales: below and above the scale extent
ZoomRequests == {0, 41}

\* translations of zoom events
Translations == {<<0, 0>>, <<5, -3>>}

\* the zoom events of the desktop session: zooming out about a point and
\* zooming in, each beyond the scale extent
ZoomEvents == {<<0, <<5, -3>>>>, <<41, <<0, 0>>>>}

InitSim ==
    /\ documents = <<>>
    /\ BuildIdle
    /\ LoginIdle
    /\ DashIdle
    /\ data \in SimGraphs
    /\ Mounted

\* the simulation, the drag gestures and the unmount of the component
NextSim ==
    \/ Tick
    \/ \E p \in Pointers : \E k \in DOMAIN data.nodes : DragStarted(p, k)
    \/ \E p \in Pointers : \E pt \in Points : Dragged(p, pt)
    \/ \E p \in Pointers : DragEnded(p)
    \/ \E g \in SimGraphs : SetData(g)
    \/ Unmount

SpecSim == InitSim /\ [][NextSim]_vars

\* the same, the timer of a running simulation firing again and again
SpecSimFair == SpecSim /\ WF_vars(Tick)

\* graphs are received and no drag is started
NextCool ==
    \/ Tick
    \/ \E g \in SimGraphs : SetData(g)

SpecCool == InitSim /\ [][NextCool]_vars /\ WF_vars(Tick)

\* a desktop session on a two-node graph: the mouse and wheel handlers
InitUI ==
    /\ documents = <<>>
    /\ BuildIdle
    /\ LoginIdle
    /\ DashIdle
    /\ data \in {PairGraph, SplitGraph}
    /\ Mounted

NextUI ==
    \/ \E k \in DOMAIN data.nodes : NodeClick(k)
    \/ BackgroundClick
    \/ \E k \in DOMAIN data.nodes : DragStarted("mouse", k)
    \/ \E pt \in Points : Dragged("mouse", pt)
    \/ DragEnded("mouse")
    \/ \E e \in ZoomEvents : Zoom(e[1], e[2])
    \/ Tick

SpecUI == InitUI /\ [][NextUI]_vars

\* zooming and panning between clicks and mouse drags, the simulation
\* not ticking
NextZoom ==
    \/ \E k \in ZoomRequests \cup {IdentityScale, ScaleMin, ScaleMax} :
          \E t \in Translations : Zoom(k, t)
    \/ \E t \in Translations : Zoom(transform.k, t)
    \/ \E k \in DOMAIN data.nodes : NodeClick(k)
    \/ BackgroundClick
    \/ \E k \in DOMAIN data.nodes : DragStarted("mouse", k)
    \/ \E pt \in Points : Dragged("mouse", pt)
    \/ DragEnded("mouse")

SpecZoom == InitUI /\ [][NextZoom]_vars

----------------------------------------------------------------------------
(* The three views that hand a graph to KnowledgeGraph *)

\* Array.from(new Set(s)), and the includes test before push: the first
\* occurrence of every value, in order
RECURSIVE Dedupe(_)
Dedupe(s) ==
    IF s = <<>> THEN <<>>
    ELSE IF \E k \in 1..(Len(s) - 1) : s[k] = s[Len(s)]
         THEN Dedupe(SubSeq(s, 1, Len(s) - 1))
         ELSE Append(Dedupe(SubSeq(s, 1, Len(s) - 1)), s[Len(s)])

\* the two nested loops over instList, from the pair (i, j) on
RECURSIVE PairLinks(_, _, _)
PairLinks(instList, i, j) ==
    IF i > Len(instList) THEN <<>>
    ELSE IF j > Len(instList) THEN PairLinks(instList, i + 1, i + 2)
    ELSE << [source |-> instList[i], target |-> instList[j]] >>
           \o PairLinks(instList, i, j + 1)

\* Object.values(domainMap).forEach, from the k-th domain on
RECURSIVE DomainLinks(_, _, _)
DomainLinks(docs, domains, k) ==
    IF k > Len(domains) THEN <<>>
    ELSE LET InDomain(doc) == doc.domain = domains[k] /\ Truthy(doc.institute)
             members == SelectSeq(docs, InDomain)
             instList == Dedupe([m \in DOMAIN members |-> members[m].institute])
         IN  PairLinks(instList, 1, 2) \o DomainLinks(docs, domains, k + 1)

\* the instituteGraph memo of the analytics view
InstituteGraph(docs) ==
    LET institutes ==
            Dedupe(SelectSeq([k \in DOMAIN docs |-> docs[k].institute], Truthy))
        domains == Dedupe([k \in DOMAIN docs |-> docs[k].domain])
    IN  Graph([k \in DOMAIN institutes |->
                 [id |-> institutes[k], group |-> "INSTITUTE", val |-> 10]],
              DomainLinks(docs, domains, 1))

\* stored documents with their domain: the same institute with and without
\* padding, another domain, a null and a blank institute
ViewDocs ==
    {Doc1 @@ [domain |-> "AI"], Doc3 @@ [domain |-> "AI"],
     Doc2 @@ [domain |-> "Bio"], Doc4 @@ [domain |-> "AI"],
     Doc6 @@ [domain |-> "AI"]}

\* what a document's knowledgeGraph can be: the seeded graphs list the
\* endpoints of their edges; the graph of an analysed paper is whatever
\* JSON.parse made of the model's answer
LocalGraphs ==
    {Graph(ns, es) : ns \in {<<>>, SubSeq(PairGraph.nodes, 1, 1), PairGraph.nodes},
                     es \in {<<>>, PairGraph.edges}}

\* forceLink's find throws "node not found" for an edge of g
FindFails(g) ==
    \E k \in DOMAIN g.edges :
        NodeObject(g, g.edges[k].source) = 0 \/ NodeObject(g, g.edges[k].target) = 0

\* a KnowledgeGraph is rendered with data = g and its effect runs; when
\* the effect throws, nothing is drawn and React removes the tree
Mount(g) ==
    /\ ~mounted
    /\ Len(simulations) < MaxSimulations
    /\ selectedNodeId' = Null
    /\ IF FindFails(g)
       THEN /\ data' = g
            /\ clicked' = <<>>
            /\ UNCHANGED <<mounted, circleOpacity, labelOpacity, linkOpacity,
                           transform, simVars>>
       ELSE /\ Draw(g)
            /\ mounted' = TRUE
            /\ simulations' = Append(simulations, TRUE)
    /\ UNCHANGED <<loginVars, buildVars>>

\* the detail view of a document whose knowledgeGraph is g
OpenDetail(g) == Mount(g) /\ UNCHANGED dashVars

\* the Graph Explorer, with the filters f
OpenExplorer(f) ==
    \E g \in {GlobalGraphData(documents, f)} :
        /\ Mount(g)
        /\ graphFilters' = f
        /\ globalGraphData' = g
        /\ UNCHANGED selectedGraphNode

\* the analytics view
OpenAnalytics == Mount(InstituteGraph(documents)) /\ UNCHANGED dashVars

InitViews ==
    /\ documents \in SeqsUpTo(ViewDocs, MaxDocs)
    /\ BuildIdle
    /\ LoginIdle
    /\ UiIdle

NextViews ==
    \/ \E g \in LocalGraphs : OpenDetail(g)
    \/ \E f \in FilterStates : OpenExplorer(f)
    \/ OpenAnalytics
    \/ Unmount

SpecViews == InitViews /\ [][NextViews]_vars

----------------------------------------------------------------------------
(* The Graph Explorer: Dashboard state, the details panel and the graph *)

\* selectedGraphNode holding the node object n; current: n is an element of
\* the present globalGraphData (the same object, not only an equal one)
Selected(n) == << [node |-> n, current |-> TRUE] >>

\* the selection after the memo has produced new node objects
Outdated(sel) == [k \in DOMAIN sel |-> [sel[k] EXCEPT !.current = FALSE]]

\* the simulations recorded, the oldest dropped beyond MaxSimulations
Recorded(sims) == IF Len(sims) > MaxSimulations THEN Tail(sims) ELSE sims

\* GraphExplorerView is a function created by each render of the Dashboard,
\* so its element has a new component type every time: React unmounts the
\* subtree (the cleanup stops the simulation) and mounts a new
\* KnowledgeGraph, whose state is initial and whose effect draws g
Remounted(g) ==
    /\ selectedNodeId' = Null
    /\ Redraw(g)
    /\ simulations' = Recorded(Append(Stopped(simulations), TRUE))
    /\ UNCHANGED mounted

\* a state change of the Dashboard and the render that follows; recompute:
\* a dependency of the globalGraphData memo has changed
Rerender(docs, f, sel, recompute) ==
    /\ mounted
    /\ documents' = docs
    /\ graphFilters' = f
    /\ selectedGraphNode' = IF recompute THEN Outdated(sel) ELSE sel
    /\ \E g \in {IF recompute THEN GlobalGraphData(docs, f) ELSE globalGraphData} :
          globalGraphData' = g /\ Remounted(g)
    /\ UNCHANGED <<loginVars, nodes, edges, pc, di, ii, result, prev>>

\* a click on the node at position k: the listener of KnowledgeGraph, then
\* onNodeClick = setSelectedGraphNode(node); setting the object the state
\* already holds renders nothing
ExplorerNodeClick(k) ==
    /\ k \in DOMAIN data.nodes
    /\ IF selectedGraphNode = Selected(data.nodes[k])
       THEN NodeClick(k)
       ELSE /\ Rerender(documents, graphFilters, Selected(data.nodes[k]), FALSE)
            /\ clicked' = <<data.nodes[k]>>

\* the close button of the details panel
ClosePanel ==
    /\ selectedGraphNode # <<>>
    /\ Rerender(documents, graphFilters, <<>>, FALSE)
    /\ clicked' = <<>>

\* one of the three checkboxes
ToggleFilter(name) ==
    /\ Rerender(documents, [graphFilters EXCEPT ![name] = ~@], selectedGraphNode, TRUE)
    /\ clicked' = <<>>

\* the load effect runs again and sets the stored documents
Reload(docs) ==
    /\ Rerender(docs, graphFilters, selectedGraphNode, TRUE)
    /\ clicked' = <<>>

\* the stored documents
ExplorerDocs == {<<Doc1>>, <<Doc4, Doc1>>}

\* the Graph Explorer has been opened
InitExplorer ==
    /\ documents \in ExplorerDocs
    /\ graphFilters = AllShown
    /\ globalGraphData = GlobalGraphData(documents, graphFilters)
    /\ selectedGraphNode = <<>>
    /\ data = globalGraphData
    /\ Mounted
    /\ BuildIdle
    /\ LoginIdle

NextExplorer ==
    \/ \E k \in DOMAIN data.nodes : ExplorerNodeClick(k)
    \/ BackgroundClick
    \/ ClosePanel
    \/ \E name \in {"showConcepts", "showAuthors", "showInstitutes"} : ToggleFilter(name)
    \/ \E docs \in ExplorerDocs : Reload(docs)

SpecExplorer == InitExplorer /\ [][NextExplorer]_vars

----------------------------------------------------------------------------
(* Vocabulary of the properties of the builder *)

NodeIds(ns) == {ns[k].id : k \in DOMAIN ns}

NoDupIds(ns) == \A a, b \in DOMAIN ns : ns[a].id = ns[b].id => a = b

SameEdge(e, f) ==
    e.relation = f.relation /\ {e.source, e.target} = {f.source, f.target}

NoDupEdges(es) == \A a, b \in DOMAIN es : SameEdge(es[a], es[b]) => a = b

Relations ==
    {"written_by", "published_at", "affiliated_with", "discusses", "uses_method"}

GroupNodes(ns, group) == {k \in DOMAIN ns : ns[k].group = group}

RelEdges(es, relation) == {k \in DOMAIN es : es[k].relation = relation}

\* a string without its leading and trailing whitespace, stated by position
Core(s) ==
    LET inked == {k \in DOMAIN s : s[k] \notin Whitespace}
    IN  IF inked = {} THEN <<>>
        ELSE SubSeq(s, CHOOSE k \in inked : \A m \in inked : k <= m,
                       CHOOSE k \in inked : \A m \in inked : k >= m)

\* the id the next step hands to addNode; <<>> when it calls no addNode
PendingNodeId ==
    IF pc # "running" \/ di > Len(documents) THEN <<>>
    ELSE CASE CurPart[1] = "paper"     -> <<"paper:">> \o CurDoc.id
           [] CurPart[1] = "authors"   -> <<"author:">> \o Core(CurPart[2])
           [] CurPart[1] = "institute" -> <<"inst:">> \o Core(CurDoc.institute)
           [] CurPart[1] = "concepts"  -> <<"concept:">> \o Core(ToLowerCase(CurPart[2]))
           [] CurPart[1] = "methods"   -> <<"method:">> \o Core(ToLowerCase(CurPart[2]))
           [] OTHER -> <<>>

Returned == pc = "returned"

\* C1: the node list never holds two nodes with the same id, and a step that
\* adds an id already present leaves the list as it was except that the
\* weight of the node with that id grows by exactly 1; a step that adds a new
\* id appends one node; a step that adds no node leaves the list unchanged.
C1_NodeIdsUnique ==
    [][ /\ NoDupIds(nodes')
        /\ pc = "running" =>
             LET id == PendingNodeId
                 k  == NodeIndex(nodes, id)
             IN  IF id = <<>> THEN nodes' = nodes
                 ELSE IF k # 0
                      THEN nodes' = [nodes EXCEPT ![k].val = nodes[k].val + 1]
                      ELSE /\ Len(nodes') = Len(nodes) + 1
                           /\ SubSeq(nodes', 1, Len(nodes)) = nodes
                           /\ nodes'[Len(nodes')].id = id ]_vars

\* a returned graph in which an author id was added a second time
C1_Witness ==
    /\ Returned
    /\ \E k \in DOMAIN result[1].nodes :
          /\ result[1].nodes[k].group = "AUTHOR"
          /\ result[1].nodes[k].val = 6

\* C2: the edge list never holds two edges with the same unordered endpoint
\* pair and relation; adding an existing edge again, in either direction, is
\* rejected, and (A,B,r) followed by (B,A,r) on an empty list leaves one edge.
C2_OneEdgePerPair ==
    /\ NoDupEdges(edges)
    /\ result # <<>> => NoDupEdges(result[1].edges)
    /\ \A k \in DOMAIN edges :
          LET e == edges[k] IN
          /\ AddEdge(edges, e.target, e.source, e.relation) = edges
          /\ AddEdge(edges, e.source, e.target, e.relation) = edges
          /\ Len(AddEdge(AddEdge(<<>>, e.source, e.target, e.relation),
                         e.target, e.source, e.relation)) = 1

\* a returned graph for which the build attempted an edge twice: two papers
\* with the same author and institute, and one affiliated_with edge
C2_Witness ==
    /\ Returned
    /\ \E p, q, a, i \in NodeIds(nodes) :
          /\ p # q
          /\ \A x \in {p, q} :
                /\ \E k \in DOMAIN edges : edges[k] =
                      [source |-> x, target |-> a, relation |-> "written_by"]
                /\ \E k \in DOMAIN edges : edges[k] =
                      [source |-> x, target |-> i, relation |-> "published_at"]
          /\ Cardinality({k \in DOMAIN edges :
                /\ edges[k].relation = "affiliated_with"
                /\ {edges[k].source, edges[k].target} = {a, i}}) = 1

\* C3: no edge has source equal to target, and adding an edge from a node to
\* itself, with any relation, leaves the edge list unchanged.
C3_NoSelfLoops ==
    /\ \A k \in DOMAIN edges : edges[k].source # edges[k].target
    /\ result # <<>> =>
          \A k \in DOMAIN result[1].edges :
             result[1].edges[k].source # result[1].edges[k].target
    /\ \A id \in NodeIds(nodes) : \A r \in Relations :
          AddEdge(edges, id, id, r) = edges

\* a returned graph with the edges of a paper, its author and its institute
C3_Witness ==
    /\ Returned
    /\ \A r \in {"written_by", "published_at", "affiliated_with"} :
          RelEdges(result[1].edges, r) # {}

\* two documents with distinct ids, each with authors ["K. Chen"], institute
\* "MIT", key concepts ["GNN"] and no methods
ScenarioDocs ==
    /\ Len(documents) = 2
    /\ documents[1].id # documents[2].id
    /\ \A d \in 1..2 :
          /\ documents[d].authors = <<KChen>>
          /\ documents[d].institute = MIT
          /\ documents[d].keyConcepts = <<GNN>>
          /\ documents[d].methods = <<>>

ScenarioNodes(authorWeight, instituteWeight, conceptWeight) ==
    LET ns == result[1].nodes IN
    /\ Len(ns) = 5
    /\ Cardinality(GroupNodes(ns, "PAPER")) = 2
    /\ Cardinality(GroupNodes(ns, "AUTHOR")) = 1
    /\ Cardinality(GroupNodes(ns, "INSTITUTE")) = 1
    /\ Cardinality(GroupNodes(ns, "CONCEPT")) = 1
    /\ \A k \in GroupNodes(ns, "AUTHOR") : ns[k].val = authorWeight
    /\ \A k \in GroupNodes(ns, "INSTITUTE") : ns[k].val = instituteWeight
    /\ \A k \in GroupNodes(ns, "CONCEPT") : ns[k].val = conceptWeight

\* C4 as stated: the scenario yields 2 PAPER nodes, 1 AUTHOR node of weight 7,
\* 1 INSTITUTE node of weight 8, 1 CONCEPT node of weight 5 and no other node.
C4_Original == (Returned /\ ScenarioDocs) => ScenarioNodes(7, 8, 5)

\* C4 as amended: the scenario yields 2 PAPER nodes, 1 AUTHOR node of weight 6,
\* 1 INSTITUTE node of weight 7, 1 CONCEPT node of weight 4 and no other node.
C4_ScenarioNodes == (Returned /\ ScenarioDocs) => ScenarioNodes(6, 7, 4)

C4_Witness == Returned /\ ScenarioDocs

\* the documents listing an author name (compared after trimming)
ListingDocs(name) ==
    {d \in DOMAIN documents :
        \E k \in DOMAIN documents[d].authors : Core(documents[d].authors[k]) = name}

ListsOnce(d, name) ==
    Cardinality({k \in DOMAIN documents[d].authors :
                    Core(documents[d].authors[k]) = name}) = 1

\* C5: an author name that exactly two documents list, once each, names that
\* differ only in surrounding whitespace counting as the same name, has a
\* single AUTHOR node, with id "author:" + the trimmed name and weight 6.
C5_SharedAuthorWeight ==
    Returned =>
      \A d \in DOMAIN documents : \A a \in DOMAIN documents[d].authors :
         LET name == Core(documents[d].authors[a])
             hits == {k \in DOMAIN result[1].nodes :
                        /\ result[1].nodes[k].group = "AUTHOR"
                        /\ Core(result[1].nodes[k].label) = name}
         IN  (/\ Cardinality(ListingDocs(name)) = 2
              /\ \A x \in ListingDocs(name) : ListsOnce(x, name))
             => /\ Cardinality(hits) = 1
                /\ \A k \in hits :
                      /\ result[1].nodes[k].val = 6
                      /\ result[1].nodes[k].id = <<"author:">> \o name

\* two documents listing the same author, one with surrounding whitespace
C5_Witness ==
    /\ Returned
    /\ Len(documents) = 2
    /\ documents[1].authors = <<KChenPad>>
    /\ documents[2].authors = <<KChen>>

\* two documents with distinct ids, one author, an institute, one key concept
\* and no methods, the three names being the same in both
SharedScenarioDocs ==
    /\ Len(documents) = 2
    /\ documents[1].id # documents[2].id
    /\ \A d \in 1..2 :
          /\ Len(documents[d].authors) = 1
          /\ Truthy(documents[d].institute)
          /\ Len(documents[d].keyConcepts) = 1
          /\ documents[d].methods = <<>>
    /\ Core(documents[1].authors[1]) = Core(documents[2].authors[1])
    /\ Core(documents[1].institute) = Core(documents[2].institute)
    /\ Core(ToLowerCase(documents[1].keyConcepts[1]))
         = Core(ToLowerCase(documents[2].keyConcepts[1]))

\* C6: in that scenario the graph has 2 written_by, 2 published_at and
\* 2 discusses edges and 1 affiliated_with edge, 7 edges in all.
C6_ScenarioEdges ==
    (Returned /\ SharedScenarioDocs) =>
       LET es == result[1].edges IN
       /\ Cardinality(RelEdges(es, "written_by")) = 2
       /\ Cardinality(RelEdges(es, "published_at")) = 2
       /\ Cardinality(RelEdges(es, "discusses")) = 2
       /\ Cardinality(RelEdges(es, "affiliated_with")) = 1
       /\ Len(es) = 7

C6_Witness == Returned /\ SharedScenarioDocs /\ documents[1].authors # documents[2].authors

\* the graph was built from the single document documents[1]
SingleDoc == Returned /\ Len(documents) = 1

\* the lower-cased, trimmed names of the first n entries of a list
FirstKeys(items, n) ==
    {Core(ToLowerCase(items[k])) : k \in {m \in DOMAIN items : m <= n}}

\* C7 as stated: a single document with more than 5 key concepts yields
\* exactly 5 CONCEPT nodes and 5 discusses edges, and one with more than
\* 3 methods exactly 3 METHOD nodes and 3 uses_method edges.
C7_Original ==
    SingleDoc =>
      LET doc == documents[1]
          g   == result[1]
      IN  /\ Len(doc.keyConcepts) > 5 =>
                /\ Cardinality(GroupNodes(g.nodes, "CONCEPT")) = 5
                /\ Cardinality(RelEdges(g.edges, "discusses")) = 5
          /\ Len(doc.methods) > 3 =>
                /\ Cardinality(GroupNodes(g.nodes, "METHOD")) = 3
                /\ Cardinality(RelEdges(g.edges, "uses_method")) = 3

\* what a list of more than n entries contributes: one node and one edge per
\* distinct lower-cased, trimmed name among its first n entries, the node's
\* weight being 3 plus the number of further occurrences among those n
Truncated(doc, items, n, prefix, group, relation) ==
    LET g    == result[1]
        keys == FirstKeys(items, n)
    IN  /\ {g.nodes[k].id : k \in GroupNodes(g.nodes, group)}
             = {<<prefix>> \o key : key \in keys}
        /\ Cardinality(GroupNodes(g.nodes, group)) = Cardinality(keys)
        /\ {g.edges[k] : k \in RelEdges(g.edges, relation)}
             = {[source |-> <<"paper:">> \o doc.id, target |-> <<prefix>> \o key,
                 relation |-> relation] : key \in keys}
        /\ Cardinality(RelEdges(g.edges, relation)) = Cardinality(keys)
        /\ \A k \in GroupNodes(g.nodes, group) :
              g.nodes[k].val = 3 + Cardinality({m \in DOMAIN items :
                  m <= n /\ <<prefix>> \o Core(ToLowerCase(items[m])) = g.nodes[k].id}) - 1
        /\ (\A a, b \in 1..n : a # b =>
               Core(ToLowerCase(items[a])) # Core(ToLowerCase(items[b])))
             => /\ Cardinality(GroupNodes(g.nodes, group)) = n
                /\ Cardinality(RelEdges(g.edges, relation)) = n

\* C7 as amended: a single document with more than 5 key concepts yields one
\* CONCEPT node and one discusses edge per distinct lower-cased, trimmed
\* concept among its first 5 (exactly 5 of each when those are pairwise
\* distinct), and likewise METHOD nodes and uses_method edges for the first 3
\* of more than 3 methods; entries past the cut-off add no node, no edge and
\* no weight.
C7_Truncation ==
    SingleDoc =>
      LET doc == documents[1]
      IN  /\ Len(doc.keyConcepts) > 5 =>
                Truncated(doc, doc.keyConcepts, 5, "concept:", "CONCEPT", "discusses")
          /\ Len(doc.methods) > 3 =>
                Truncated(doc, doc.methods, 3, "method:", "METHOD", "uses_method")

\* a single document with 6 key concepts and 4 methods whose last entries
\* repeat the first ones
C7_Witness ==
    /\ SingleDoc
    /\ Len(documents[1].keyConcepts) > 5
    /\ Len(documents[1].methods) > 3
    /\ documents[1].keyConcepts[6] = documents[1].keyConcepts[1]
    /\ documents[1].methods[4] = documents[1].methods[1]
    /\ Cardinality(GroupNodes(result[1].nodes, "CONCEPT")) = 5
    /\ Cardinality(GroupNodes(result[1].nodes, "METHOD")) = 3

EdgeSet(es) == {<<{es[k].source, es[k].target}, es[k].relation>> : k \in DOMAIN es}

SameGraph(g, h) ==
    /\ NodeIds(g.nodes) = NodeIds(h.nodes)
    /\ \A a \in DOMAIN g.nodes : \A b \in DOMAIN h.nodes :
          g.nodes[a].id = h.nodes[b].id => g.nodes[a].val = h.nodes[b].val
    /\ EdgeSet(g.edges) = EdgeSet(h.edges)

\* C8: a second call, on the same documents in the same or any other order,
\* returns the same node ids, the same weight for every id and the same
\* edges (unordered endpoint pair and relation) as the call before it.
C8_OrderIndependent ==
    (Returned /\ prev # <<>>) => SameGraph(prev[1], result[1])

\* two calls on two different documents in opposite orders, the second
\* returning its nodes in another order, one of them merged
C8_Witness ==
    /\ Returned
    /\ prev # <<>>
    /\ Len(documents) = 2
    /\ prev[1].nodes # result[1].nodes
    /\ \E k \in DOMAIN result[1].nodes :
          result[1].nodes[k].group = "AUTHOR" /\ result[1].nodes[k].val = 6

----------------------------------------------------------------------------
(* Properties of the group filter *)

Range(q) == {q[k] : k \in DOMAIN q}

Disabled(group) ==
    \/ group = "CONCEPT" /\ ~graphFilters.showConcepts
    \/ group = "AUTHOR" /\ ~graphFilters.showAuthors
    \/ group = "INSTITUTE" /\ ~graphFilters.showInstitutes

\* C9: for every combination of the three toggles the filtered graph holds no
\* node of a disabled group and no edge with an endpoint outside its node
\* list (with concepts disabled, no CONCEPT node and no edge to one), and it
\* holds every node of the built graph whose group is not disabled and every
\* edge of the built graph between two retained nodes, and nothing else.
C9_FilterConsistent ==
    \A raw \in {BuildGlobalGraph(documents)} :
    \A ids \in {NodeIds(globalGraphData.nodes)} :
    \A conceptIds \in {{raw.nodes[k].id : k \in GroupNodes(raw.nodes, "CONCEPT")}} :
      LET g == globalGraphData
      IN  /\ \A k \in DOMAIN g.nodes : ~Disabled(g.nodes[k].group)
          /\ \A k \in DOMAIN g.edges :
                g.edges[k].source \in ids /\ g.edges[k].target \in ids
          /\ ~graphFilters.showConcepts =>
                /\ GroupNodes(g.nodes, "CONCEPT") = {}
                /\ \A k \in DOMAIN g.edges :
                      /\ g.edges[k].source \notin conceptIds
                      /\ g.edges[k].target \notin conceptIds
          /\ Range(g.nodes) = {n \in Range(raw.nodes) : ~Disabled(n.group)}
          /\ Len(g.nodes) = Cardinality(Range(g.nodes))
          /\ Range(g.edges)
               = {e \in Range(raw.edges) : e.source \in ids /\ e.target \in ids}
          /\ Len(g.edges) = Cardinality(Range(g.edges))

\* concepts are disabled for documents that have concepts, and authors and
\* their edges remain
C9_Witness ==
    /\ ~graphFilters.showConcepts
    /\ graphFilters.showAuthors
    /\ \E raw \in {BuildGlobalGraph(documents)} :
          /\ GroupNodes(raw.nodes, "CONCEPT") # {}
          /\ Len(globalGraphData.edges) > 0
          /\ Len(globalGraphData.edges) < Len(raw.edges)

----------------------------------------------------------------------------
(* Properties of the highlight *)

\* node m of the rendered graph is the node with id s or shares an edge with it
InNeighbourhood(m, s) ==
    \/ data.nodes[m].id = s
    \/ \E k \in DOMAIN data.edges :
          {data.edges[k].source, data.edges[k].target} = {data.nodes[m].id, s}

\* C10: a click on a node s leaves the circle and the label of a node fully
\* opaque if it is s or shares an edge with s, in either direction, and
\* dimmed to the low opacity otherwise.
C10_HighlightNodes ==
    [][ \A s \in DOMAIN data.nodes :
          NodeClick(s) =>
            \A m \in DOMAIN data.nodes :
               IF InNeighbourhood(m, data.nodes[s].id)
               THEN circleOpacity'[m] = 100 /\ labelOpacity'[m] = 100
               ELSE circleOpacity'[m] = 10 /\ labelOpacity'[m] = 10 ]_vars

\* a node is selected; a node it points to and a node that points to it are
\* opaque, and some other node is dimmed
C10_Witness ==
    /\ selectedNodeId # Null
    /\ \E a, b, c \in DOMAIN data.nodes :
          /\ \E k \in DOMAIN data.edges :
                data.edges[k].source = selectedNodeId
                /\ data.edges[k].target = data.nodes[a].id
          /\ \E k \in DOMAIN data.edges :
                data.edges[k].target = selectedNodeId
                /\ data.edges[k].source = data.nodes[b].id
          /\ circleOpacity[a] = 100 /\ labelOpacity[a] = 100
          /\ circleOpacity[b] = 100 /\ labelOpacity[b] = 100
          /\ circleOpacity[c] = 10 /\ labelOpacity[c] = 10

\* the ids of the closed 1-hop neighbourhood of the node with id s
ClosedNeighbourhood(s) ==
    {id \in NodeIds(data.nodes) :
        \/ id = s
        \/ \E k \in DOMAIN data.edges :
              {data.edges[k].source, data.edges[k].target} = {id, s}}

\* C11: a click on a node s leaves an edge prominent if both of its endpoints
\* are in the closed 1-hop neighbourhood of s, whether or not the edge is
\* incident to s, and dimmed otherwise.
C11_HighlightEdges ==
    [][ \A s \in DOMAIN data.nodes :
          NodeClick(s) =>
            \A hood \in {ClosedNeighbourhood(data.nodes[s].id)} :
            \A k \in DOMAIN data.edges :
               IF data.edges[k].source \in hood /\ data.edges[k].target \in hood
               THEN linkOpacity'[k] = 80
               ELSE linkOpacity'[k] = 5 ]_vars

\* a node is selected; an edge between two of its neighbours that does not
\* touch it is prominent, an edge that touches it is prominent and some
\* other edge is dimmed
C11_Witness ==
    /\ Truthy(selectedNodeId)
    /\ \E a, b, c \in DOMAIN data.edges :
          /\ selectedNodeId \notin {data.edges[a].source, data.edges[a].target}
          /\ linkOpacity[a] = 80
          /\ selectedNodeId \in {data.edges[b].source, data.edges[b].target}
          /\ linkOpacity[b] = 80
          /\ linkOpacity[c] = 5

----------------------------------------------------------------------------
(* Properties of the pointer handlers, the simulation and the drag *)

\* the step is a click on some node
SomeNodeClick == \E k \in DOMAIN data.nodes : NodeClick(k)

\* C12: a click on a node n leaves n the selected node, whichever node was
\* selected before, applies the highlight for n in that step (n opaque, the
\* nodes without an edge to n dimmed, the selection not cleared), and calls
\* onNodeClick once, with the node n; a step that is a background click, a
\* drag start, move or end, a zoom or a tick calls onNodeClick not at all.
C12_NodeClick ==
    [][ /\ \A k \in DOMAIN data.nodes :
              NodeClick(k) =>
                /\ selectedNodeId' = data.nodes[k].id
                /\ clicked' = <<data.nodes[k]>>
                /\ \A m \in DOMAIN data.nodes :
                      circleOpacity'[m] =
                         IF InNeighbourhood(m, data.nodes[k].id) THEN 100 ELSE 10
                /\ \A e \in DOMAIN data.edges : linkOpacity'[e] # 60
        /\ ~SomeNodeClick => clicked' = <<>> ]_vars

\* the second node was clicked during a drag, after a tick and a zoom: it is
\* selected and was handed to onNodeClick, and the first node is dimmed
C12_Witness ==
    /\ Len(data.nodes) = 2
    /\ selectedNodeId = data.nodes[2].id
    /\ clicked = <<data.nodes[2]>>
    /\ circleOpacity = <<10, 100>>
    /\ gestures["mouse"] # 0
    /\ alpha < AlphaStart
    /\ transform.k # IdentityScale

\* C13: a background click, in any state, leaves no node selected, every
\* circle and label at opacity 1 and every edge at stroke-opacity 0.6, and
\* changes no node's x, y, fx or fy.
C13_BackgroundClick ==
    [][ BackgroundClick =>
          /\ selectedNodeId' = Null
          /\ \A m \in DOMAIN data.nodes :
                circleOpacity'[m] = 100 /\ labelOpacity'[m] = 100
          /\ \A e \in DOMAIN data.edges : linkOpacity'[e] = 60
          /\ <<posX, posY, fx, fy>>' = <<posX, posY, fx, fy>> ]_vars

\* the state after a background click during a drag: nothing is selected,
\* nothing is dimmed, and the dragged node is still pinned where the
\* pointer moved it, away from where the node is
C13_Witness ==
    /\ selectedNodeId = Null
    /\ clicked = <<>>
    /\ data.edges # <<>>
    /\ \A e \in DOMAIN data.edges : linkOpacity[e] = 60
    /\ \A m \in DOMAIN data.nodes : circleOpacity[m] = 100
    /\ \E k \in DOMAIN data.nodes :
          /\ gestures["mouse"] = k
          /\ fx[k] # NoPin
          /\ fx[k] # posX[k]
    /\ alpha < AlphaStart

\* the nodes some pointer is dragging
DraggedNodes == {gestures[p] : p \in {q \in Pointers : gestures[q] # 0}}

Pinned(k) == fx[k] # NoPin \/ fy[k] # NoPin

\* what each drag handler does to the pin of its node
PinSteps ==
    [][ /\ \A p \in Pointers : \A k \in DOMAIN data.nodes :
              DragStarted(p, k) => fx'[k] = posX[k] /\ fy'[k] = posY[k]
        /\ \A p \in Pointers : \A pt \in Points : \A k \in DOMAIN data.nodes :
              (gestures[p] = k /\ Dragged(p, pt)) => fx'[k] = pt[1] /\ fy'[k] = pt[2]
        /\ \A p \in Pointers : \A k \in DOMAIN data.nodes :
              (gestures[p] = k /\ DragEnded(p)) => fx'[k] = NoPin /\ fy'[k] = NoPin ]_vars

\* C14 as stated: drag start pins the node at its (x, y), a pointer move
\* moves the pin to the pointer, release clears the pin, and at every moment
\* a node is pinned if and only if a gesture is dragging it.
C14_Original ==
    mounted => \A k \in DOMAIN data.nodes : Pinned(k) <=> k \in DraggedNodes

\* C14, the part that holds: the three handlers set and clear the pin as
\* stated, a node no gesture is dragging is never pinned, and when no
\* gesture is in progress no node is pinned.
C14_PinLifecycle ==
    /\ PinSteps
    /\ [](mounted => \A k \in DOMAIN data.nodes : Pinned(k) => k \in DraggedNodes)

\* after a complete gesture that moved the node, and ticks: no gesture is in
\* progress, no node is pinned, and a node sits where the pointer left it
C14_Witness ==
    /\ mounted
    /\ DraggedNodes = {}
    /\ alphaTarget = AlphaTargetIdle
    /\ alpha < AlphaTargetDrag
    /\ Running
    /\ \E k \in DOMAIN data.nodes : <<posX[k], posY[k]>> # InitialPoint(k)
    /\ \A k \in DOMAIN data.nodes : ~Pinned(k)

RunningSimulations == {i \in DOMAIN simulations : simulations[i]}

\* C15: at most one simulation is running, and it is the one created last,
\* for the current graph: every earlier simulation is stopped, in every
\* state, so none is restarted; after unmount no simulation is running.
C15_DisposeSafety ==
    /\ Cardinality(RunningSimulations) <= 1
    /\ \A i \in DOMAIN simulations : i < Len(simulations) => ~simulations[i]
    /\ ~mounted => RunningSimulations = {}
    /\ mounted => Len(simulations) >= 1

\* the graph changed twice and a drag restarted the third simulation
C15_Witness ==
    /\ mounted
    /\ simulations = <<FALSE, FALSE, TRUE>>
    /\ alphaTarget = AlphaTargetDrag
    /\ alpha < AlphaTargetDrag

\* C16: a simulation is running when its graph has been received; with no
\* drag started, every tick lowers alpha, the timer runs after a tick exactly
\* if alpha is not below alphaMin, and the simulation settles.
C16_Termination ==
    /\ [][ (\E g \in SimGraphs : SetData(g)) => Running' /\ alpha' = AlphaStart ]_vars
    /\ [][ Tick => /\ alpha' < alpha
                   /\ alpha' >= 0
                   /\ Running' <=> ~BelowAlphaMin(alpha') ]_vars
    /\ Running ~> ~Running

\* the third simulation has settled
C16_Witness ==
    /\ mounted
    /\ simulations = <<FALSE, FALSE, FALSE>>
    /\ BelowAlphaMin(alpha)
    /\ alphaTarget = AlphaTargetIdle

MissingArrays(doc) == {f \in {"authors", "keyConcepts", "methods"} : ~Has(doc, f)}

\* C17 as stated: no call of buildGlobalGraph raises, whatever arrays its
\* documents lack.
C17_Original == pc # "raised"

\* C17, the part about the institute: a call whose documents have all
\* three arrays returns, null institutes or not; a call raises exactly at a
\* document that lacks an array.
C17_NullInstitute ==
    /\ pc = "raised" => di <= Len(documents) /\ MissingArrays(documents[di]) # {}
    /\ pc = "returned" => \A k \in DOMAIN documents : MissingArrays(documents[k]) = {}

\* a call with a null-institute document has returned
C17_Witness ==
    /\ pc = "returned"
    /\ \E k \in DOMAIN documents : documents[k].institute = Null

\* C18 as stated: the graph handed to KnowledgeGraph has both endpoints
\* of every edge among its nodes.
C18_Original ==
    \A k \in DOMAIN data.edges :
        {data.edges[k].source, data.edges[k].target} \subseteq NodeIds(data.nodes)

\* C18, the graphs the application builds itself: the filtered global graph
\* and the institute graph have no dangling edge.
C18_BuiltGraphs ==
    [][ (OpenAnalytics \/ \E f \in FilterStates : OpenExplorer(f)) => C18_Original' ]_vars

\* the analytics view shows two institutes joined by an edge
C18_Witness ==
    /\ mounted
    /\ data = InstituteGraph(documents)
    /\ Len(data.edges) = 1

\* the ids the addNode calls of the next step are for
StepNodeIds ==
    CASE CurPart[1] = "paper"     -> {PaperId(CurDoc)}
      [] CurPart[1] = "authors"   -> {AuthorId(CurPart[2])}
      [] CurPart[1] = "institute" -> {InstId(CurDoc.institute)}
      [] CurPart[1] = "concepts"  -> {ConceptId(CurPart[2])}
      [] CurPart[1] = "methods"   -> {MethodId(CurPart[2])}
      [] OTHER                    -> {}

\* C19: a step of buildGlobalGraph leaves every node that exists where it
\* is, with its id, label, group and metadata; the weight of the node whose
\* id the step adds again grows by exactly 1 and no other weight changes.
C19_MergeFrame ==
    [][ (pc = "running" /\ di <= Len(documents) /\ Step) =>
          /\ Len(nodes') >= Len(nodes)
          /\ \A k \in DOMAIN nodes :
                /\ nodes'[k].id = nodes[k].id
                /\ nodes'[k].label = nodes[k].label
                /\ nodes'[k].group = nodes[k].group
                /\ nodes'[k].metadata = nodes[k].metadata
                /\ nodes'[k].val =
                      nodes[k].val + (IF nodes[k].id \in StepNodeIds THEN 1 ELSE 0) ]_vars

\* a call has returned in which a second document had the id of the first
\* and another title, or spelled the first one's concept differently: the
\* node has the first title or spelling, and weight base + 1
C19_Witness ==
    /\ pc = "returned"
    /\ \/ /\ documents = <<Doc1, Doc7>>
          /\ \E k \in DOMAIN nodes :
                /\ nodes[k].id = PaperId(Doc7)
                /\ nodes[k].label = Doc1.title
                /\ nodes[k].metadata = PaperMetadata(Doc1)
                /\ nodes[k].val = PaperVal + 1
       \/ /\ documents = <<Doc1, Doc3>>
          /\ \E k \in DOMAIN nodes :
                /\ nodes[k].id = ConceptId(GnnPad)
                /\ nodes[k].label = GNN
                /\ nodes[k].val = ConceptVal + 1

\* C20: a drag that starts while the simulation is settled makes it run
\* again; while a gesture is in progress the simulation runs, with the
\* raised alpha target; only the first of concurrent gestures raises the
\* target and restarts, only the last release resets the target; and when
\* no gesture is in progress the simulation settles, unless another drag
\* starts or the component goes away first.
C20_DragReheat ==
    /\ [][ \A p \in Pointers : \A k \in DOMAIN data.nodes :
             DragStarted(p, k) =>
                /\ Running'
                /\ alphaTarget' = AlphaTargetDrag
                /\ Active(p) > 0 => alphaTarget' = alphaTarget /\ simulations' = simulations ]_vars
    /\ [][ \A p \in Pointers :
             DragEnded(p) =>
                /\ alphaTarget' = IF Active(p) = 0 THEN AlphaTargetIdle ELSE AlphaTargetDrag
                /\ simulations' = simulations ]_vars
    /\ [](mounted /\ DraggedNodes # {} => Running /\ alphaTarget = AlphaTargetDrag)
    /\ (mounted /\ DraggedNodes = {}) ~> (~Running \/ DraggedNodes # {})

\* the simulation had settled, a drag restarted it and a second gesture
\* has joined the first
C20_Witness ==
    /\ mounted
    /\ Running
    /\ \A p \in Pointers : gestures[p] # 0
    /\ alpha < AlphaTargetDrag
    /\ alphaTarget = AlphaTargetDrag

----------------------------------------------------------------------------
(* Properties of the institute nodes, the weights and the radii *)

\* the institute of the document is a name: not null, not empty and not
\* only whitespace
NamedInstitute(doc) == Truthy(doc.institute) /\ Trim(doc.institute) # <<>>

InstituteRelations == {"published_at", "affiliated_with"}

\* C21 as stated: in a returned graph every INSTITUTE node, and the
\* target of every published_at and affiliated_with edge, is the institute
\* of a document whose institute is a name.
C21_Original ==
    pc = "returned" =>
        \E named \in {{InstId(documents[k].institute) :
                         k \in {m \in DOMAIN documents : NamedInstitute(documents[m])}}} :
            /\ \A k \in DOMAIN nodes : nodes[k].group = "INSTITUTE" => nodes[k].id \in named
            /\ \A k \in DOMAIN edges :
                  edges[k].relation \in InstituteRelations => edges[k].target \in named

\* C21, for null and empty institutes: every INSTITUTE node and institute
\* edge of a returned graph comes from a document whose institute is
\* neither null nor the empty string.
C21_NullOrEmpty ==
    pc = "returned" =>
        \E truthy \in {{InstId(documents[k].institute) :
                          k \in {m \in DOMAIN documents : Truthy(documents[m].institute)}}} :
            /\ \A k \in DOMAIN nodes : nodes[k].group = "INSTITUTE" => nodes[k].id \in truthy
            /\ \A k \in DOMAIN edges :
                  edges[k].relation \in InstituteRelations => edges[k].target \in truthy

\* a call with a null-institute and an empty-institute document returned
C21_Witness ==
    /\ pc = "returned"
    /\ documents = <<Doc4, Doc5>>
    /\ \A k \in DOMAIN nodes : nodes[k].group # "INSTITUTE"

BaseVal(group) ==
    CASE group = "AUTHOR"    -> AuthorVal
      [] group = "INSTITUTE" -> InstituteVal
      [] group = "CONCEPT"   -> ConceptVal
      [] group = "METHOD"    -> MethodVal
      [] OTHER               -> PaperVal

\* the node of the call group part of doc (none for an edge-only group)
PartNodeIds(doc, part) ==
    CASE part[1] = "paper"     -> {PaperId(doc)}
      [] part[1] = "authors"   -> {AuthorId(part[2])}
      [] part[1] = "institute" -> {InstId(doc.institute)}
      [] part[1] = "concepts"  -> {ConceptId(part[2])}
      [] part[1] = "methods"   -> {MethodId(part[2])}
      [] OTHER                 -> {}

\* how often the document doc mentions the node id in the lists read
Mentions(doc, id) ==
    Cardinality({k \in DOMAIN DocParts(doc) : id \in PartNodeIds(doc, DocParts(doc)[k])})

RECURSIVE SumMentions(_, _, _)
SumMentions(docs, id, k) ==
    IF k > Len(docs) THEN 0 ELSE Mentions(docs[k], id) + SumMentions(docs, id, k + 1)

Referencing(docs, id) == {k \in DOMAIN docs : Mentions(docs[k], id) > 0}

\* C22 as stated: in a returned graph the weight of a node that is not a
\* paper is its base value plus the number of documents that reference it,
\* minus one.
C22_Original ==
    pc = "returned" =>
        \A k \in DOMAIN nodes :
            nodes[k].group # "PAPER" =>
                nodes[k].val = BaseVal(nodes[k].group)
                                 + Cardinality(Referencing(documents, nodes[k].id)) - 1

\* C22, counting mentions: the weight is the base value plus the number
\* of list entries that name the node, over all documents, minus one.
C22_Mentions ==
    pc = "returned" =>
        \A k \in DOMAIN nodes :
            nodes[k].group # "PAPER" =>
                nodes[k].val = BaseVal(nodes[k].group)
                                 + SumMentions(documents, nodes[k].id, 1) - 1

\* one document listed an author twice
C22_Witness ==
    /\ pc = "returned"
    /\ documents = <<Doc7>>
    /\ \E k \in DOMAIN nodes : nodes[k].id = AuthorId(Lee) /\ nodes[k].val = AuthorVal + 1

Radius(n) == GetRadius(n.group, n.val)

\* the part of the radius that depends on the weight
Increment(n) ==
    Radius(n) - (CASE n.group = "PAPER" -> 12 [] n.group = "AUTHOR" -> 8
                   [] n.group = "INSTITUTE" -> 10 [] OTHER -> 5)

\* C23, the caps and the order of the groups: in a returned graph the
\* increment of a radius is at most 5 for a paper and 3 otherwise, every
\* paper is larger than every other node, and no node is smaller than a
\* concept or a method.
C23_CapsAndOrder ==
    pc = "returned" =>
        \A a \in DOMAIN nodes :
            /\ Increment(nodes[a]) <= (IF nodes[a].group = "PAPER" THEN 5 ELSE 3)
            /\ \A b \in DOMAIN nodes :
                  /\ (nodes[a].group = "PAPER" /\ nodes[b].group # "PAPER")
                        => Radius(nodes[a]) > Radius(nodes[b])
                  /\ nodes[a].group \in {"CONCEPT", "METHOD"}
                        => Radius(nodes[a]) <= Radius(nodes[b])

\* C23 as stated: the above, and a node whose weight is above the base
\* value of its group has a larger radius than a node of the same group
\* with the base value.
C23_Original ==
    /\ C23_CapsAndOrder
    /\ pc = "returned" =>
          \A a, b \in DOMAIN nodes :
              (/\ nodes[a].group = nodes[b].group
               /\ nodes[a].val > BaseVal(nodes[a].group)
               /\ nodes[b].val = BaseVal(nodes[b].group))
                 => Radius(nodes[a]) > Radius(nodes[b])

\* a returned graph has a merged and a never-merged author
C23_Witness ==
    /\ pc = "returned"
    /\ \E a, b \in DOMAIN nodes :
          /\ nodes[a].group = "AUTHOR" /\ nodes[b].group = "AUTHOR"
          /\ nodes[a].val > AuthorVal /\ nodes[b].val = AuthorVal
          /\ Radius(nodes[a]) = Radius(nodes[b])

----------------------------------------------------------------------------
(* Properties of zoom and pan *)

\* C24: the scale of the transform is within the scale extent in every
\* state, and a zoom event, a pan included, changes nothing but the
\* transform (and ends the step's onNodeClick record): no node's x, y, fx
\* or fy, not the selection, not the highlight, not the simulation.
C24_ZoomPan ==
    /\ [](mounted => transform.k >= ScaleMin /\ transform.k <= ScaleMax)
    /\ [][ (\E k \in ZoomRequests \cup {IdentityScale, ScaleMin, ScaleMax, transform.k} :
              \E t \in Translations : Zoom(k, t))
           => UNCHANGED <<posX, posY, fx, fy, selectedNodeId, circleOpacity,
                          labelOpacity, linkOpacity, data, alpha, alphaTarget,
                          gestures, simulations>> ]_vars

\* zoomed in to the largest scale and panned, a node selected and another
\* dragged to a new place
C24_Witness ==
    /\ mounted
    /\ transform = [k |-> ScaleMax, x |-> 5, y |-> -3]
    /\ Truthy(selectedNodeId)
    /\ \E k \in DOMAIN data.nodes : fx[k] # NoPin /\ fx[k] # posX[k]

----------------------------------------------------------------------------
(* Properties of the data handed to the layout *)

\* C25 as stated: the edges of the graph object handed to the component
\* still have strings in source and target after the effect has run on it.
C25_Original ==
    \A k \in DOMAIN data.edges :
        /\ MutatedEdge(data, k).source.kind = "string"
        /\ MutatedEdge(data, k).target.kind = "string"

----------------------------------------------------------------------------
(* Shape of the graphs buildGlobalGraph returns *)

\* the group the prefix of a node id stands for
Namespace(id) ==
    CASE id[1] = "paper:"   -> "PAPER"
      [] id[1] = "author:"  -> "AUTHOR"
      [] id[1] = "inst:"    -> "INSTITUTE"
      [] id[1] = "concept:" -> "CONCEPT"
      [] id[1] = "method:"  -> "METHOD"
      [] OTHER              -> "NONE"

\* the groups a relation joins, source first
EndGroups(relation) ==
    CASE relation = "written_by"      -> <<"PAPER", "AUTHOR">>
      [] relation = "published_at"    -> <<"PAPER", "INSTITUTE">>
      [] relation = "affiliated_with" -> <<"AUTHOR", "INSTITUTE">>
      [] relation = "discusses"       -> <<"PAPER", "CONCEPT">>
      [] relation = "uses_method"     -> <<"PAPER", "METHOD">>
      [] OTHER                        -> <<"NONE", "NONE">>

GroupOf(ns, id) == ns[NodeIndex(ns, id)].group

\* the pairs (author id, institute id) some document gives rise to: the
\* document lists the author and has the institute
Affiliations(docs) ==
    UNION {{<<AuthorId(docs[d].authors[a]), InstId(docs[d].institute)>> :
              a \in DOMAIN docs[d].authors} :
           d \in {m \in DOMAIN docs : Truthy(docs[m].institute)}}

\* C26: in a returned graph the endpoints of every edge are nodes of the
\* graph, the group of every node is the one of the prefix of its id, every
\* relation joins the groups it stands for, and the affiliated_with edges
\* are exactly the author-institute pairs of the documents.
C26_GraphShape ==
    pc = "returned" =>
        /\ \A k \in DOMAIN edges :
              /\ {edges[k].source, edges[k].target} \subseteq NodeIds(nodes)
              /\ <<GroupOf(nodes, edges[k].source), GroupOf(nodes, edges[k].target)>>
                    = EndGroups(edges[k].relation)
        /\ \A k \in DOMAIN nodes : nodes[k].group = Namespace(nodes[k].id)
        /\ {<<edges[k].source, edges[k].target>> :
               k \in {m \in DOMAIN edges : edges[m].relation = "affiliated_with"}}
              = Affiliations(documents)

\* a graph with two affiliated_with edges has been returned
C26_Witness ==
    /\ pc = "returned"
    /\ Cardinality({k \in DOMAIN edges : edges[k].relation = "affiliated_with"}) >= 2
    /\ Cardinality({k \in DOMAIN edges : edges[k].relation = "written_by"}) >= 2

----------------------------------------------------------------------------
(* Properties of the selection across graph changes and in the Graph Explorer *)

\* the highlight of the node id s is what the drawing shows
HighlightApplied(s) ==
    \E hood \in {ClosedNeighbourhood(s)} :
        /\ \A k \in DOMAIN data.nodes :
              /\ circleOpacity[k] = IF data.nodes[k].id \in hood THEN OpacityFull ELSE OpacityDim
              /\ labelOpacity[k] = IF data.nodes[k].id \in hood THEN OpacityFull ELSE OpacityDim
        /\ \A k \in DOMAIN data.edges :
              linkOpacity[k] = IF {data.edges[k].source, data.edges[k].target} \subseteq hood
                               THEN LinkProminent ELSE LinkDim

NoHighlight ==
    /\ \A k \in DOMAIN data.nodes :
          circleOpacity[k] = OpacityFull /\ labelOpacity[k] = OpacityFull
    /\ \A k \in DOMAIN data.edges : linkOpacity[k] = LinkDefault

\* C27 as stated: while the component is mounted, a selected id is the id
\* of a node of the graph drawn and its highlight is applied, and with no
\* selection no highlight is applied.
C27_Original ==
    mounted =>
        IF Truthy(selectedNodeId)
        THEN selectedNodeId \in NodeIds(data.nodes) /\ HighlightApplied(selectedNodeId)
        ELSE NoHighlight

\* C27, between graph changes: after a click on a node or on the
\* background the selection and the highlight agree.
C27_AfterClicks ==
    [][ ((\E k \in DOMAIN data.nodes : NodeClick(k)) \/ BackgroundClick)
          => C27_Original' ]_vars

\* the node the details panel shows
PanelNode == selectedGraphNode[1].node

\* C28 as stated: the node of the details panel is a node of the graph
\* displayed and is the node selected in the graph component.
C28_Original ==
    selectedGraphNode # <<>> =>
        /\ \E k \in DOMAIN data.nodes : data.nodes[k] = PanelNode
        /\ selectedNodeId = PanelNode.id

\* the panel shows a node that a filter has removed from the graph
C28_StalePanel ==
    /\ mounted
    /\ selectedGraphNode # <<>>
    /\ \A k \in DOMAIN data.nodes : data.nodes[k].id # PanelNode.id

\* C29 as stated: after a click on a node of the Graph Explorer the node
\* is selected and highlighted in the graph component, and the simulation
\* is the one that was running.
C29_Original ==
    [][ \A k \in DOMAIN data.nodes :
          ExplorerNodeClick(k) =>
             /\ selectedNodeId' = data.nodes[k].id
             /\ HighlightApplied(data.nodes[k].id)'
             /\ simulations' = simulations ]_vars

\* C29, what the click does: the panel shows the clicked node; the graph
\* component keeps the selection only when the panel already held that
\* very node object, and otherwise is a new instance with no selection,
\* no highlight and a new simulation.
C29_ClickRemounts ==
    [][ \A k \in DOMAIN data.nodes :
          ExplorerNodeClick(k) =>
             /\ selectedGraphNode' = Selected(data.nodes[k])
             /\ IF selectedGraphNode = Selected(data.nodes[k])
                THEN selectedNodeId' = data.nodes[k].id /\ simulations' = simulations
                ELSE /\ selectedNodeId' = Null
                     /\ NoHighlight'
                     /\ alpha' = AlphaStart
                     /\ Running' ]_vars

\* the panel shows a node that the graph component has not selected
C29_Witness ==
    /\ mounted
    /\ selectedGraphNode # <<>>
    /\ selectedNodeId = Null
    /\ NoHighlight
    /\ Len(simulations) >= 2

-----------------------------------------------------------------------------
\* ParticleNetwork of LoginView: the ambient background animation

\* the effects created and the animate calls of one effect are capped
MaxEffects == 3
MaxRuns == 2

HexChars == {"0", "1", "2", "3", "4", "5", "6", "7", "8", "9",
             "a", "b", "c", "d", "e", "f", "A", "B", "C", "D", "E", "F"}

\* parseInt(ch, 16) of one character
HexValue(ch) ==
    CASE ch = "0" -> 0 [] ch = "1" -> 1 [] ch = "2" -> 2 [] ch = "3" -> 3
      [] ch = "4" -> 4 [] ch = "5" -> 5 [] ch = "6" -> 6 [] ch = "7" -> 7
      [] ch = "8" -> 8 [] ch = "9" -> 9
      [] ch \in {"a", "A"} -> 10 [] ch \in {"b", "B"} -> 11
      [] ch \in {"c", "C"} -> 12 [] ch \in {"d", "D"} -> 13
      [] ch \in {"e", "E"} -> 14 [] ch \in {"f", "F"} -> 15

\* rgb used when the regular expression does not match: indigo
DefaultRgb == [r |-> 99, g |-> 102, b |-> 241]

\* hexToRgb: /^#?([a-f\d]{2})([a-f\d]{2})([a-f\d]{2})$/i
HexToRgb(hex) ==
    LET digits == IF hex # <<>> /\ Head(hex) = "#" THEN Tail(hex) ELSE hex
        Pair(k) == 16 * HexValue(digits[k]) + HexValue(digits[k + 1])
    IN  IF Len(digits) = 6 /\ \A k \in 1..6 : digits[k] \in HexChars
        THEN [r |-> Pair(1), g |-> Pair(3), b |-> Pair(5)]
        ELSE DefaultRgb

\* let mouse = { x: -1000, y: -1000 }
MouseAway == <<-1000, -1000>>
\* positions a mousemove event reports, relative to the canvas
MousePositions == {<<10, 20>>}
\* window.innerWidth, window.innerHeight
WindowSizes == {<<800, 600>>, <<1024, 768>>}

\* the closure one run of the effect creates: its rgb, size and mouse, its
\* two window listeners, the animation frame it has requested, the number
\* of animate calls made, and of those the ones made after its cleanup
NewEffect(c, size) ==
    [rgb |-> HexToRgb(c), size |-> size, mouse |-> MouseAway,
     mousemove |-> TRUE, resize |-> TRUE, frame |-> TRUE,
     runs |-> 1, cleaned |-> FALSE, late |-> 0]

\* the function the effect returns: both listeners are removed
Cleaned(e) ==
    [e EXCEPT !.mousemove = FALSE, !.resize = FALSE, !.cleaned = TRUE]

\* React runs the cleanup of the current effect, the last one created
CleanedUp(es) ==
    [k \in DOMAIN es |-> IF k = Len(es) THEN Cleaned(es[k]) ELSE es[k]]

\* LoginView renders <ParticleNetwork color={themeColor} />
MountParticles(size) ==
    /\ ~canvas
    /\ Len(effects) < MaxEffects
    /\ canvas' = TRUE
    /\ effects' = Append(effects, NewEffect(color, size))
    /\ UNCHANGED <<color, buildVars, dashVars, kgVars>>

\* setRole: the colour prop changes, the effect is cleaned up and runs
\* again; the window has the size the current effect has tracked
ChangeColor(c) ==
    /\ canvas
    /\ c # color
    /\ Len(effects) < MaxEffects
    /\ color' = c
    /\ effects' = Append(CleanedUp(effects),
                         NewEffect(c, effects[Len(effects)].size))
    /\ UNCHANGED <<canvas, buildVars, dashVars, kgVars>>

\* onLogin: App stops rendering LoginView
UnmountParticles ==
    /\ canvas
    /\ canvas' = FALSE
    /\ effects' = CleanedUp(effects)
    /\ UNCHANGED <<color, buildVars, dashVars, kgVars>>

\* the browser runs the animation frame that effect k requested: animate
\* draws and requests the next frame
Frame(k) ==
    /\ k \in DOMAIN effects
    /\ effects[k].frame
    /\ effects[k].runs < MaxRuns
    /\ effects' = [effects EXCEPT ![k].runs = @ + 1,
                                  ![k].late = IF effects[k].cleaned THEN @ + 1 ELSE @]
    /\ UNCHANGED <<canvas, color, buildVars, dashVars, kgVars>>

\* a mousemove event of the window: every handleMouseMove still attached runs
MouseMove(p) ==
    /\ effects' = [k \in DOMAIN effects |->
                      IF effects[k].mousemove
                      THEN [effects[k] EXCEPT !.mouse = p,
                                              !.late = IF effects[k].cleaned THEN @ + 1 ELSE @]
                      ELSE effects[k]]
    /\ effects' # effects
    /\ UNCHANGED <<canvas, color, buildVars, dashVars, kgVars>>

\* a resize event of the window: every handleResize still attached runs and,
\* when the canvas is there, sets the size
Resize(size) ==
    /\ effects' = [k \in DOMAIN effects |->
                      IF effects[k].resize
                      THEN [effects[k] EXCEPT !.size = IF canvas THEN size ELSE @,
                                              !.late = IF effects[k].cleaned THEN @ + 1 ELSE @]
                      ELSE effects[k]]
    /\ effects' # effects
    /\ UNCHANGED <<canvas, color, buildVars, dashVars, kgVars>>

InitLogin ==
    /\ documents = <<>>
    /\ BuildIdle
    /\ LoginIdle
    /\ UiIdle

NextLogin ==
    \/ \E size \in WindowSizes : MountParticles(size)
    \/ \E c \in ThemeColors : ChangeColor(c)
    \/ UnmountParticles
    \/ \E k \in 1..MaxEffects : Frame(k)
    \/ \E p \in MousePositions : MouseMove(p)
    \/ \E size \in WindowSizes : Resize(size)

SpecLogin == InitLogin /\ [][NextLogin]_vars

\* the animation loops that have a frame requested
Loops == {k \in DOMAIN effects : effects[k].frame}

\* C30: after the cleanup of a ParticleNetwork effect none of its callbacks
\* runs again: its listeners are removed and its loop requests no further
\* frame, so at most one loop runs while mounted and none after unmount
C30_Original ==
    /\ \A k \in DOMAIN effects :
          effects[k].cleaned =>
              /\ ~effects[k].mousemove
              /\ ~effects[k].resize
              /\ effects[k].late = 0
    /\ Cardinality(Loops) <= IF canvas THEN 1 ELSE 0

\* the part that holds: the listeners of a cleaned-up effect are removed,
\* so only the current effect listens, and none after unmount
C30_ListenersRemoved ==
    /\ \A k \in DOMAIN effects :
          effects[k].cleaned => ~effects[k].mousemove /\ ~effects[k].resize
    /\ \A k \in DOMAIN effects :
          effects[k].mousemove \/ effects[k].resize => canvas /\ k = Len(effects)

\* after unmount every loop ever started is still requesting frames, and
\* animate has run after the cleanup
C30_LoopsAccumulate ==
    /\ ~canvas
    /\ Len(effects) >= 2
    /\ Loops = DOMAIN effects
    /\ \A k \in DOMAIN effects : effects[k].late > 0

====
